---- MODULE Spec2Model ----
(***************************************************************************)
(* Model of the ae error library (package ae): the Ae error value, the     *)
(* fluent Builder (type Builder Ae, value receivers), the capability       *)
(* probes (Causes, ExitCode, IsRecoverable, ...) and the Go memory they    *)
(* work on.  Go maps and slice backing arrays are reference data: a copy   *)
(* of a Builder struct copies the map pointers and the slice headers, not  *)
(* the maps and arrays.  The model therefore keeps an explicit heap.       *)
(***************************************************************************)
EXTENDS Integers, Sequences, FiniteSets, TLC

(***************************************************************************)
(* Bounds of the model.                                                    *)
(***************************************************************************)
MaxBuilders == 2      \* builder values the client holds at once
MaxErrs == 2          \* error values on the heap (foreign leaf included)
MaxArgs == 1          \* arguments of one variadic call
MaxArrays == 3        \* backing arrays on the heap
MaxChainBuilders == 3 \* the same four limits in ChainSpec
MaxChainErrs == 2
MaxChainArgs == 3
MaxChainArrays == 4
MaxNodes == 3         \* errors built in ProbeSpec
MaxSnapCauses == 3    \* causes of the builder the threads of ConcSpec share
MaxCopyBuilders == 1  \* the limits of CopySpec
MaxCopyErrs == 3
MaxCopyArrays == 6
MaxCopyMaps == 3
MaxWrites == 2        \* writes of the client into the container it holds
MaxUtilErrs == 4           \* the limits of UtilSpec
MaxUtilArgs == 2
MaxUtilArrays == 4
MaxUtilMaps == 2
MaxRenderErrs == 4         \* the limits of RenderSpec
MaxRenderArgs == 2
MaxRenderArrays == 4
MaxRenderMaps == 3
MaxDepthArg == 3           \* largest argument of WithMaxDepth
MaxWrappers == 1           \* wrapping errors made in FallbackSpec
MaxOptions == 2            \* options a client passes to NewPrinter
MaxCalls == 3              \* calls in one chain after New()
MaxContexts == 3           \* contexts a client derives from Background

(***************************************************************************)
(* Input alphabets.                                                        *)
(***************************************************************************)
TagVals == {"", "a"}
TagLists == {<<"a", "">>}
AttrKeys == {"", "k"}
AttrVals == {1, 2}
AttrMaps == {[k \in {"k"} |-> 2]}
MsgVals == {"", "m"}
ExitVals == {0, 5, 9}     \* exit codes of errors of other types
ExitArgs == {-1, 0, 5}    \* arguments of Builder.ExitCode

VARIABLES
    builders,   \* the Builder values (structs, by value) the client holds
    errs,       \* heap of error objects; an error reference is an index
    heap,       \* tagmaps, attrmaps: heap of Go maps; arrays: backing arrays
    ret,        \* the last probe call and what it returned
    shared,     \* ConcSpec: the builder snapshot the threads share
    threads,    \* ConcSpec: per thread, its call and how far it has got
    crashed,    \* ConcSpec: the runtime has stopped the process
    held        \* the container the last accessor call gave the client

concVars == <<shared, threads, crashed>>

vars == <<builders, errs, heap, ret, shared, threads, crashed, held>>

Nil == 0   \* the nil error / nil map / nil array pointer

Torn == -1 \* an interface value two unsynchronised stores have torn

\* the client holds no container
NoHeld == [kind |-> "", of |-> Nil, own |-> FALSE,
           slice |-> [arr |-> Nil, len |-> 0, cap |-> 0], vals |-> <<>>,
           map |-> Nil, entries |-> <<>>, writes |-> 0]

NoCall == [fn |-> "", arg |-> Nil, val |-> Nil]

(***************************************************************************)
(* Go slices: a header (array pointer, len, cap) over a backing array.     *)
(***************************************************************************)
NilSlice == [arr |-> Nil, len |-> 0, cap |-> 0]

SliceElems(s, h) == [i \in 1..s.len |-> h.arrays[s.arr][i]]

(***************************************************************************)
(* Capacity the Go runtime gives a grown slice of interfaces (16 bytes per *)
(* element, below 256 elements): the needed length when that is more than  *)
(* twice the old capacity, else twice the old capacity.                    *)
(***************************************************************************)
nextslicecap(newLen, oldCap) ==
    IF newLen > 2 * oldCap THEN newLen ELSE 2 * oldCap

(***************************************************************************)
(* append(s, x): writes in place into the backing array when there is      *)
(* spare capacity, and only otherwise moves the elements to a new array.   *)
(***************************************************************************)
append(s, x, h) ==
    IF s.len < s.cap
    THEN [s |-> [s EXCEPT !.len = s.len + 1],
          h |-> [h EXCEPT !.arrays[s.arr][s.len + 1] = x]]
    ELSE LET newcap == nextslicecap(s.len + 1, s.cap)
             fresh == [i \in 1..newcap |->
                          IF i <= s.len THEN h.arrays[s.arr][i]
                          ELSE IF i = s.len + 1 THEN x ELSE Nil]
         IN [s |-> [arr |-> Len(h.arrays) + 1, len |-> s.len + 1,
                    cap |-> newcap],
             h |-> [h EXCEPT !.arrays = Append(@, fresh)]]

(***************************************************************************)
(* The loop "for _, c := range list { if c != nil { s = append(s, c) } }". *)
(***************************************************************************)
RECURSIVE appendNonNil(_, _, _)
\* variant: without the nil test
appendNonNil_KeepNil(s, list, h) ==
    IF list = <<>> THEN [s |-> s, h |-> h]
    ELSE LET r == append(s, Head(list), h)
         IN appendNonNil(r.s, Tail(list), r.h)

appendNonNil(s, list, h) ==
    IF list = <<>> THEN [s |-> s, h |-> h]
    ELSE IF Head(list) = Nil THEN appendNonNil(s, Tail(list), h)
    ELSE LET r == append(s, Head(list), h)
         IN appendNonNil(r.s, Tail(list), r.h)

(***************************************************************************)
(* slices.Clone / maps.Clone: a new array of exactly the elements, a new   *)
(* map with the same entries.                                              *)
(***************************************************************************)
slicesClone(s, h) ==
    IF s.len = 0 THEN [s |-> NilSlice, h |-> h]
    ELSE [s |-> [arr |-> Len(h.arrays) + 1, len |-> s.len, cap |-> s.len],
          h |-> [h EXCEPT !.arrays = Append(@, SliceElems(s, h))]]

sliceOf(list, h) ==
    IF list = <<>> THEN [s |-> NilSlice, h |-> h]
    ELSE [s |-> [arr |-> Len(h.arrays) + 1, len |-> Len(list),
                 cap |-> Len(list)],
          h |-> [h EXCEPT !.arrays = Append(@, list)]]

(***************************************************************************)
(* Error objects.  An *Ae holds the frozen struct; a foreign error holds   *)
(* its Error() text and the optional capabilities (methods) it has.        *)
(***************************************************************************)
AeError(a) == [type |-> "Ae", ae |-> a]

Foreign(text, caps, exitCode, recoverable, errorCauses, unwrapMany, unwrapOne, cause) ==
    [type |-> "Foreign", text |-> text, caps |-> caps,
     exitCode |-> exitCode, recoverable |-> recoverable,
     errorCauses |-> errorCauses, unwrapMany |-> unwrapMany,
     unwrapOne |-> unwrapOne, cause |-> cause]

PlainError(text) == Foreign(text, {}, 0, FALSE, <<>>, <<>>, Nil, Nil)

(***************************************************************************)
(* The methods of Ae (value receivers, so *Ae has them too).               *)
(***************************************************************************)
AeMethods ==
    {"ErrorMessage", "ErrorUserMessage", "ErrorHint", "ErrorRecoverable",
     "ErrorCode", "ErrorExitCode", "ErrorTraceId", "ErrorSpanId",
     "ErrorTags", "ErrorAttributes", "ErrorCauses", "ErrorRelated",
     "ErrorStacks", "ErrorTimestamp", "UnwrapMany"}

Implements(o, cap) ==
    IF o.type = "Ae" THEN cap \in AeMethods ELSE cap \in o.caps

ErrorCausesOf(o, h) ==
    IF o.type = "Ae" THEN SliceElems(o.ae.causes, h) ELSE o.errorCauses

ErrorRelatedOf(o, h) ==
    IF o.type = "Ae" THEN SliceElems(o.ae.related, h) ELSE <<>>

\* Unwrap() []error: Ae returns a.ErrorCauses()
UnwrapOf(o, h) ==
    IF o.type = "Ae" THEN ErrorCausesOf(o, h) ELSE o.unwrapMany

(***************************************************************************)
(* New: a zero Ae with two freshly made maps.  recoverable is not set and  *)
(* keeps Go's zero value, false.                                           *)
(***************************************************************************)
New(h) ==
    [b |-> [msg |-> "", userMsg |-> "", hint |-> "", recoverable |-> FALSE,
            code |-> "", exitCode |-> 0, traceId |-> "", spanId |-> "",
            tags |-> Len(h.tagmaps) + 1,
            attributes |-> Len(h.attrmaps) + 1,
            causes |-> NilSlice, related |-> NilSlice, stacks |-> <<>>],
     h |-> [h EXCEPT !.tagmaps = Append(@, {}),
                     !.attrmaps = Append(@, [k \in {} |-> 0])]]

(***************************************************************************)
(* The setters of plain fields assign to the receiver copy.                *)
(***************************************************************************)
Builder_Hint(b, hint, h) == [b |-> [b EXCEPT !.hint = hint], h |-> h]

Builder_Code(b, code, h) == [b |-> [b EXCEPT !.code = code], h |-> h]

Builder_TraceId(b, traceId, h) == [b |-> [b EXCEPT !.traceId = traceId], h |-> h]

Builder_SpanId(b, spanId, h) == [b |-> [b EXCEPT !.spanId = spanId], h |-> h]

Builder_ExitCode(b, exitCode, h) ==
    [b |-> IF exitCode > 0 THEN [b EXCEPT !.exitCode = exitCode] ELSE b,
     h |-> h]

(***************************************************************************)
(* Tag, Tags, Attr, Attrs: the receiver is a copy of the struct, but       *)
(* b.tags and b.attributes are the maps of the builder it was copied from; *)
(* the assignment goes into that map.                                      *)
(***************************************************************************)
mapPut(m, key, value) ==
    [k \in DOMAIN m \cup {key} |-> IF k = key THEN value ELSE m[k]]

mapsCopy(dst, src) ==
    [k \in DOMAIN dst \cup DOMAIN src |->
        IF k \in DOMAIN src THEN src[k] ELSE dst[k]]

Range(list) == {list[i] : i \in 1..Len(list)}

Builder_Tag(b, tag, h) ==
    [b |-> b, h |-> [h EXCEPT !.tagmaps[b.tags] = @ \cup {tag}]]

Builder_Tags(b, tags, h) ==
    [b |-> b, h |-> [h EXCEPT !.tagmaps[b.tags] = @ \cup Range(tags)]]

Builder_Attr(b, key, value, h) ==
    [b |-> b,
     h |-> [h EXCEPT !.attrmaps[b.attributes] = mapPut(@, key, value)]]

Builder_Attrs(b, attrs, h) ==
    [b |-> b,
     h |-> [h EXCEPT !.attrmaps[b.attributes] = mapsCopy(@, attrs)]]

(***************************************************************************)
(* Cause, Causes, Related: append the non-nil arguments to the slice of    *)
(* the receiver copy.                                                      *)
(***************************************************************************)
Builder_Causes(b, causes, h) ==
    LET r == appendNonNil(b.causes, causes, h)
    IN [b |-> [b EXCEPT !.causes = r.s], h |-> r.h]

Builder_Cause(b, causes, h) == Builder_Causes(b, causes, h)

Builder_Related(b, related, h) ==
    LET r == appendNonNil(b.related, related, h)
    IN [b |-> [b EXCEPT !.related = r.s], h |-> r.h]

(***************************************************************************)
(* CauseUnwrap, RelatedUnwrap: an argument that has Unwrap() []error is    *)
(* replaced by its non-nil children, any other non-nil argument is         *)
(* appended itself.  E is the heap of error objects.                       *)
(***************************************************************************)
RECURSIVE appendUnwrap(_, _, _, _)
appendUnwrap(s, list, E, h) ==
    IF list = <<>> THEN [s |-> s, h |-> h]
    ELSE IF Head(list) = Nil THEN appendUnwrap(s, Tail(list), E, h)
    ELSE LET x == E[Head(list)]
             r == IF Implements(x, "UnwrapMany")
                  THEN appendNonNil(s, UnwrapOf(x, h), h)
                  ELSE append(s, Head(list), h)
         IN appendUnwrap(r.s, Tail(list), E, r.h)

Builder_CauseUnwrap(b, causes, E, h) ==
    LET r == appendUnwrap(b.causes, causes, E, h)
    IN [b |-> [b EXCEPT !.causes = r.s], h |-> r.h]

Builder_RelatedUnwrap(b, related, E, h) ==
    LET r == appendUnwrap(b.related, related, E, h)
    IN [b |-> [b EXCEPT !.related = r.s], h |-> r.h]

(***************************************************************************)
(* Msg, UserMsg: set the message on the receiver copy and return the       *)
(* address of that copy as *Ae.  The copy shares maps and backing arrays   *)
(* with the builder.                                                       *)
(***************************************************************************)
Builder_Msg(b, msg) == AeError([b EXCEPT !.msg = msg])

Builder_UserMsg(b, msg, userMsg) == Builder_Msg([b EXCEPT !.userMsg = userMsg], msg)

(***************************************************************************)
(* Ae.clone: copies the struct and clones maps and slices.                 *)
(***************************************************************************)
\* variant: the struct is copied, the maps and slices are not
clone_Shallow(a, h) == [b |-> a, h |-> h]

clone(a, h) ==
    LET c == slicesClone(a.causes, h)
        r == slicesClone(a.related, c.h)
    IN [b |-> [a EXCEPT !.tags = Len(h.tagmaps) + 1,
                        !.attributes = Len(h.attrmaps) + 1,
                        !.causes = c.s, !.related = r.s],
        h |-> [r.h EXCEPT !.tagmaps = Append(@, h.tagmaps[a.tags]),
                          !.attrmaps = Append(@, h.attrmaps[a.attributes])]]

(***************************************************************************)
(* From: New() for nil, a clone for *Ae, and for any other error New()     *)
(* with the fields of the capabilities the error has.  recoverable has no  *)
(* branch, and neither has the Error() text.                               *)
(***************************************************************************)
From(err, E, h) ==
    IF err = Nil THEN New(h)
    ELSE IF E[err].type = "Ae" THEN clone(E[err].ae, h)
    ELSE LET x == E[err]
             n == New(h)
             c == IF "ErrorCauses" \in x.caps
                  THEN sliceOf(x.errorCauses, n.h)
                  ELSE [s |-> NilSlice, h |-> n.h]
         IN [b |-> [n.b EXCEPT
                       !.exitCode = IF "ErrorExitCode" \in x.caps
                                    THEN x.exitCode ELSE @,
                       !.causes = c.s],
             h |-> c.h]

(***************************************************************************)
(* The capability probes.  They read the error heap and the Go heap of     *)
(* the current state.                                                      *)
(***************************************************************************)
Max(S) == CHOOSE m \in S : \A n \in S : n <= m

\* variant: Unwrap() []error is asked before ErrorCauses
Causes_UnwrapFirst(err) ==
    IF err = Nil THEN <<>>
    ELSE LET x == errs[err]
         IN IF Implements(x, "UnwrapMany") THEN UnwrapOf(x, heap)
            ELSE IF Implements(x, "ErrorCauses") THEN ErrorCausesOf(x, heap)
            ELSE IF Implements(x, "UnwrapOne") THEN <<x.unwrapOne>>
            ELSE IF Implements(x, "Cause") THEN <<x.cause>>
            ELSE <<>>

\* Causes: ErrorCauses, else Unwrap() []error, else Unwrap() error, else
\* Cause() error, else nil.
Causes(err) ==
    IF err = Nil THEN <<>>
    ELSE LET x == errs[err]
         IN IF Implements(x, "ErrorCauses") THEN ErrorCausesOf(x, heap)
            ELSE IF Implements(x, "UnwrapMany") THEN UnwrapOf(x, heap)
            ELSE IF Implements(x, "UnwrapOne") THEN <<x.unwrapOne>>
            ELSE IF Implements(x, "Cause") THEN <<x.cause>>
            ELSE <<>>

Related(err) ==
    IF err = Nil THEN <<>>
    ELSE IF Implements(errs[err], "ErrorRelated")
         THEN ErrorRelatedOf(errs[err], heap)
         ELSE <<>>

\* the methods ErrorExitCode() and ErrorIsRecoverable()
ErrorExitCode(o) == IF o.type = "Ae" THEN o.ae.exitCode ELSE o.exitCode

ErrorIsRecoverable(o) ==
    IF o.type = "Ae" THEN o.ae.recoverable ELSE o.recoverable

RECURSIVE ExitCode(_)

\* variants of ExitCode with a plausible slip each
ExitCode_IgnoreOwn(err) ==
    IF err = Nil THEN 0
    ELSE LET cs == Causes(err)
         IN Max({1} \cup {ExitCode(cs[i]) : i \in 1..Len(cs)})

ExitCode_Shallow(err) ==
    IF err = Nil THEN 0
    ELSE IF /\ Implements(errs[err], "ErrorExitCode")
            /\ ErrorExitCode(errs[err]) > 0
         THEN ErrorExitCode(errs[err])
         ELSE LET cs == Causes(err)
                  own(c) == IF c # Nil /\ Implements(errs[c], "ErrorExitCode")
                            THEN ErrorExitCode(errs[c]) ELSE 0
              IN Max({1} \cup {own(cs[i]) : i \in 1..Len(cs)})

ExitCode_MaxWithCauses(err) ==
    IF err = Nil THEN 0
    ELSE LET cs == Causes(err)
             own == IF Implements(errs[err], "ErrorExitCode")
                    THEN ErrorExitCode(errs[err]) ELSE 0
         IN Max({1, own} \cup {ExitCode(cs[i]) : i \in 1..Len(cs)})

ExitCode_NilIsOne(err) ==
    IF err = Nil THEN 1
    ELSE IF /\ Implements(errs[err], "ErrorExitCode")
            /\ ErrorExitCode(errs[err]) > 0
         THEN ErrorExitCode(errs[err])
         ELSE LET cs == Causes(err)
              IN Max({1} \cup {ExitCode(cs[i]) : i \in 1..Len(cs)})

\* ExitCode: 0 for nil; the error's own exit code when it has the capability
\* and the code is positive; else the largest ExitCode of its causes, from 1.
\* This is the ExitCode that goes with Ae.ErrorExitCode.  The repository also
\* holds an earlier ExitCode, for the earlier interface with an ExitCode()
\* method, which returns 1 for nil; it is not the one modelled here.
\* The recursion ends on the finite cause trees of ProbeSpec; whether every
\* error the builder makes is such a tree is the matter of C4.
ExitCode(err) ==
    IF err = Nil THEN 0
    ELSE IF /\ Implements(errs[err], "ErrorExitCode")
            /\ ErrorExitCode(errs[err]) > 0
         THEN ErrorExitCode(errs[err])
         ELSE LET cs == Causes(err)
              IN Max({1} \cup {ExitCode(cs[i]) : i \in 1..Len(cs)})

RECURSIVE IsRecoverable(_)

\* variant: a declared "recoverable" answers for the whole subtree
IsRecoverable_TrueWins(err) ==
    IF err = Nil THEN TRUE
    ELSE IF Implements(errs[err], "ErrorRecoverable")
         THEN ErrorIsRecoverable(errs[err])
         ELSE LET cs == Causes(err)
              IN \A i \in 1..Len(cs) : IsRecoverable(cs[i])

\* IsRecoverable: true for nil; false when the error declares itself not
\* recoverable; else true exactly when every cause is recoverable.
IsRecoverable(err) ==
    IF err = Nil THEN TRUE
    ELSE IF /\ Implements(errs[err], "ErrorRecoverable")
            /\ ~ErrorIsRecoverable(errs[err])
         THEN FALSE
         ELSE LET cs == Causes(err)
              IN \A i \in 1..Len(cs) : IsRecoverable(cs[i])

\* The probes of plain fields: the zero value for nil and for an error
\* without the capability; Message falls back to Error().
Message(err) ==
    IF err = Nil THEN ""
    ELSE IF Implements(errs[err], "ErrorMessage") THEN errs[err].ae.msg
    ELSE errs[err].text

UserMessage(err) ==
    IF err = Nil THEN ""
    ELSE IF Implements(errs[err], "ErrorUserMessage")
         THEN errs[err].ae.userMsg ELSE ""

Hint(err) ==
    IF err # Nil /\ Implements(errs[err], "ErrorHint")
    THEN errs[err].ae.hint ELSE ""

Code(err) ==
    IF err = Nil THEN ""
    ELSE IF Implements(errs[err], "ErrorCode") THEN errs[err].ae.code ELSE ""

TraceId(err) ==
    IF err = Nil THEN ""
    ELSE IF Implements(errs[err], "ErrorTraceId")
         THEN errs[err].ae.traceId ELSE ""

SpanId(err) ==
    IF err = Nil THEN ""
    ELSE IF Implements(errs[err], "ErrorSpanId")
         THEN errs[err].ae.spanId ELSE ""

\* Tags: the keys of the tag map (in no particular order: a set)
Tags(err) ==
    IF err = Nil THEN {}
    ELSE IF Implements(errs[err], "ErrorTags")
         THEN heap.tagmaps[errs[err].ae.tags] ELSE {}

Attributes(err) ==
    IF err = Nil THEN [k \in {} |-> 0]
    ELSE IF Implements(errs[err], "ErrorAttributes")
         THEN heap.attrmaps[errs[err].ae.attributes]
         ELSE [k \in {} |-> 0]

Stacks(err) ==
    IF err = Nil THEN <<>>
    ELSE IF Implements(errs[err], "ErrorStacks")
         THEN errs[err].ae.stacks ELSE <<>>

\* outside ConcSpec there is one thread of control and nothing is shared
NoThreads ==
    /\ shared = [b |-> Nil, h |-> Nil]
    /\ threads = <<>>
    /\ crashed = FALSE
    /\ held = NoHeld

Init ==
    /\ builders = {}
    /\ errs = <<PlainError("io")>>
    /\ heap = [tagmaps |-> <<>>, attrmaps |-> <<>>, arrays |-> <<>>]
    /\ ret = NoCall
    /\ NoThreads

(***************************************************************************)
(* Inputs of the calls.  L is the record of limits of the specification    *)
(* the action is used in.                                                  *)
(***************************************************************************)
ErrRefs == 0..Len(errs)     \* nil or any error made so far

ErrLists(L) == UNION {[1..n -> ErrRefs] : n \in 1..L.args}

Limits == [builders |-> MaxBuilders, errs |-> MaxErrs, args |-> MaxArgs,
           arrays |-> MaxArrays]

ChainLimits == [builders |-> MaxChainBuilders, errs |-> MaxChainErrs,
                args |-> MaxChainArgs, arrays |-> MaxChainArrays]

(***************************************************************************)
(* The client keeps the builder value a call returns.                      *)
(***************************************************************************)
Keep(r, L) ==
    /\ Cardinality(builders \cup {r.b}) <= L.builders
    /\ Len(r.h.arrays) <= L.arrays
    /\ builders' = builders \cup {r.b}
    /\ heap' = r.h
    /\ UNCHANGED <<errs, ret, concVars, held>>

DoNew(L) == Keep(New(heap), L)

DoFrom(L) == \E e \in ErrRefs : Keep(From(e, errs, heap), L)

DoHint(L) == \E b \in builders : Keep(Builder_Hint(b, "h", heap), L)

DoCode(L) == \E b \in builders : Keep(Builder_Code(b, "c", heap), L)

DoTraceId(L) == \E b \in builders : Keep(Builder_TraceId(b, "t", heap), L)

DoSpanId(L) == \E b \in builders : Keep(Builder_SpanId(b, "s", heap), L)

DoExitCode(L) ==
    \E b \in builders, n \in ExitArgs : Keep(Builder_ExitCode(b, n, heap), L)

DoTag(L) == \E b \in builders, t \in TagVals : Keep(Builder_Tag(b, t, heap), L)

DoTags(L) ==
    \E b \in builders, ts \in TagLists : Keep(Builder_Tags(b, ts, heap), L)

DoAttr(L) ==
    \E b \in builders, k \in AttrKeys, v \in AttrVals :
        Keep(Builder_Attr(b, k, v, heap), L)

DoAttrs(L) ==
    \E b \in builders, m \in AttrMaps : Keep(Builder_Attrs(b, m, heap), L)

DoCause(L) ==
    \E b \in builders, cs \in ErrLists(L) : Keep(Builder_Cause(b, cs, heap), L)

DoCauses(L) ==
    \E b \in builders, cs \in ErrLists(L) :
        Keep(Builder_Causes(b, cs, heap), L)

DoCauseUnwrap(L) ==
    \E b \in builders, cs \in ErrLists(L) :
        Keep(Builder_CauseUnwrap(b, cs, errs, heap), L)

DoRelated(L) ==
    \E b \in builders, rs \in ErrLists(L) :
        Keep(Builder_Related(b, rs, heap), L)

DoRelatedUnwrap(L) ==
    \E b \in builders, rs \in ErrLists(L) :
        Keep(Builder_RelatedUnwrap(b, rs, errs, heap), L)

(***************************************************************************)
(* A terminal call puts a new *Ae on the heap.                             *)
(***************************************************************************)
Freeze(e, L) ==
    /\ Len(errs) < L.errs
    /\ errs' = Append(errs, e)
    /\ UNCHANGED <<builders, heap, ret, concVars, held>>

DoMsg(L) == \E b \in builders, m \in MsgVals : Freeze(Builder_Msg(b, m), L)

DoUserMsg(L) == \E b \in builders : Freeze(Builder_UserMsg(b, "m", "u"), L)

Next ==
    \/ DoNew(Limits) \/ DoFrom(Limits)
    \/ DoHint(Limits) \/ DoCode(Limits)
    \/ DoTraceId(Limits) \/ DoSpanId(Limits) \/ DoExitCode(Limits)
    \/ DoTag(Limits) \/ DoTags(Limits) \/ DoAttr(Limits) \/ DoAttrs(Limits)
    \/ DoCause(Limits) \/ DoCauses(Limits) \/ DoCauseUnwrap(Limits)
    \/ DoRelated(Limits) \/ DoRelatedUnwrap(Limits)
    \/ DoMsg(Limits) \/ DoUserMsg(Limits)

(***************************************************************************)
(* The cause operations alone: New/From, Cause/Causes/CauseUnwrap and the  *)
(* Msg freeze, with argument lists long enough to leave spare capacity.    *)
(***************************************************************************)
ChainNext ==
    \/ DoNew(ChainLimits) \/ DoFrom(ChainLimits)
    \/ DoCause(ChainLimits) \/ DoCauses(ChainLimits)
    \/ DoCauseUnwrap(ChainLimits)
    \/ DoMsg(ChainLimits)

ChainSpec == Init /\ [][ChainNext]_vars

(***************************************************************************)
(* One chain of calls: b := New(), and then every call is made on the      *)
(* builder the call before returned.  ret.arg is the list of the calls     *)
(* made so far, ret.val the builder the last one returned.                 *)
(***************************************************************************)
ArgChoice ==
    {a \in {<<Nil>>, <<1>>, <<2, 1>>, <<1, Nil, 2>>, <<3>>, <<4, 2>>, <<5>>,
            <<Nil, 3, 1>>} :
        \A i \in 1..Len(a) : a[i] <= Len(errs)}

StartChain ==
    /\ ret = NoCall
    /\ builders' = {New(heap).b}
    /\ heap' = New(heap).h
    /\ ret' = [fn |-> "chain", arg |-> <<>>, val |-> New(heap).b]
    /\ UNCHANGED <<errs, concVars, held>>

ChainStep(fn, args, r) ==
    /\ ret.fn = "chain"
    /\ Len(ret.arg) < MaxCalls
    /\ builders' = {r.b}
    /\ heap' = r.h
    /\ ret' = [fn |-> "chain",
               arg |-> Append(ret.arg, [fn |-> fn, args |-> args]),
               val |-> r.b]
    /\ UNCHANGED <<errs, concVars, held>>

ChainCause ==
    \E a \in ArgChoice : ChainStep("Cause", a, Builder_Cause(ret.val, a, heap))

ChainCauses ==
    \E a \in ArgChoice :
        ChainStep("Causes", a, Builder_Causes(ret.val, a, heap))

ChainRelated ==
    \E a \in ArgChoice :
        ChainStep("Related", a, Builder_Related(ret.val, a, heap))

ChainCauseUnwrap ==
    \E a \in ArgChoice :
        ChainStep("CauseUnwrap", a,
                  Builder_CauseUnwrap(ret.val, a, errs, heap))

ChainRelatedUnwrap ==
    \E a \in ArgChoice :
        ChainStep("RelatedUnwrap", a,
                  Builder_RelatedUnwrap(ret.val, a, errs, heap))

SequenceInit ==
    /\ builders = {}
    /\ errs = <<PlainError("a"), PlainError("b")>>
    /\ heap = [tagmaps |-> <<>>, attrmaps |-> <<>>, arrays |-> <<>>]
    /\ ret = NoCall
    /\ NoThreads

SequenceNext == StartChain \/ ChainCause \/ ChainCauses \/ ChainRelated

SequenceSpec == SequenceInit /\ [][SequenceNext]_vars

\* the same with errors that have Unwrap() []error: a wrapper of a, nil and
\* b, a wrapper of that wrapper, and an *Ae without causes
UnwrapInit ==
    LET n == New([tagmaps |-> <<>>, attrmaps |-> <<>>, arrays |-> <<>>])
    IN /\ builders = {}
       /\ errs = <<PlainError("a"), PlainError("b"),
                   Foreign("j", {"UnwrapMany"}, 0, FALSE, <<>>, <<1, Nil, 2>>,
                           Nil, Nil),
                   Foreign("jj", {"UnwrapMany"}, 0, FALSE, <<>>, <<3>>,
                           Nil, Nil),
                   Builder_Msg(n.b, "leaf")>>
       /\ heap = n.h
       /\ ret = NoCall
       /\ NoThreads

UnwrapNext == StartChain \/ ChainCauseUnwrap \/ ChainRelatedUnwrap

UnwrapSpec == UnwrapInit /\ [][UnwrapNext]_vars

(***************************************************************************)
(* Tags and attributes staged in a context.Context.  A context is the list *)
(* of the bindings made by context.WithValue from context.Background()     *)
(* on; Value(key) is the last binding of the key.  A binding holds a       *)
(* []string (a fresh slice per call) or the pointer of a map.  ret.val is  *)
(* the list of the contexts the client has, ret.arg the last call.         *)
(***************************************************************************)
Background == <<>>

NoBinding == [key |-> "", kind |-> "", tags |-> <<>>, ref |-> Nil]

RECURSIVE Value(_, _)
Value(ctx, key) ==
    IF ctx = <<>> THEN NoBinding
    ELSE IF ctx[Len(ctx)].key = key THEN ctx[Len(ctx)]
    ELSE Value(SubSeq(ctx, 1, Len(ctx) - 1), key)

WithValue(ctx, key, kind, tags, ref) ==
    Append(ctx, [key |-> key, kind |-> kind, tags |-> tags, ref |-> ref])

\* slices.Compact(slices.Sorted(...)) over the tags of the model
TagOrder == <<"a", "b">>

SortedCompact(list) == SelectSeq(TagOrder, LAMBDA t : t \in Range(list))

\* WithTagsValue: the tags under tagKey if that value is a []string, joined
\* with the new ones, sorted and de-duplicated, bound to tagKey
WithTagsValue(ctx, tags, h) ==
    LET v == Value(ctx, "tagKey")
        existingTags == IF v.kind = "[]string" THEN v.tags ELSE <<>>
    IN [ctx |-> WithValue(ctx, "tagKey", "[]string",
                          SortedCompact(existingTags \o tags), Nil),
        h |-> h]

TagsFromContext(ctx) ==
    LET v == Value(ctx, "tagKey")
    IN IF v.kind = "[]string" THEN v.tags ELSE <<>>

\* the common part of WithAttributes and WithAttributesValue: the map under
\* tagKey if that value is a map, else a new map; attrs copied into it; the
\* map bound to key
withAttributesUnder(key, ctx, attrs, h) ==
    LET v == Value(ctx, "tagKey")
        ok == v.kind = "map"
        m == IF ok THEN v.ref ELSE Len(h.attrmaps) + 1
        h1 == IF ok THEN h
              ELSE [h EXCEPT !.attrmaps = Append(@, [k \in {} |-> 0])]
    IN [ctx |-> WithValue(ctx, key, "map", <<>>, m),
        h |-> [h1 EXCEPT !.attrmaps[m] = mapsCopy(@, attrs)]]

\* WithAttributes binds the map to attributesKey
WithAttributes(ctx, attrs, h) ==
    withAttributesUnder("attributesKey", ctx, attrs, h)

\* WithAttributesValue binds the map to tagKey
WithAttributesValue(ctx, attrs, h) ==
    withAttributesUnder("tagKey", ctx, attrs, h)

\* AttributesFromContext: the map under tagKey if that value is a map
AttributesFromContext(ctx, h) ==
    LET v == Value(ctx, "tagKey")
    IN IF v.kind = "map" THEN h.attrmaps[v.ref] ELSE [k \in {} |-> 0]

CtxAttrs == {[k \in {"k"} |-> 1], [k \in {"j", "k"} |-> 2]}

CtxTags == {<<"a">>, <<"b", "a">>}

ContextInit ==
    /\ builders = {}
    /\ errs = <<>>
    /\ heap = [tagmaps |-> <<>>, attrmaps |-> <<>>, arrays |-> <<>>]
    /\ ret = [fn |-> "ctx", arg |-> [fn |-> ""], val |-> <<Background>>]
    /\ NoThreads

\* the client keeps the context a call returns; it has called
\* AttributesFromContext and TagsFromContext on the parent before the call
KeepContext(fn, parent, input, r) ==
    /\ Len(ret.val) <= MaxContexts
    /\ heap' = r.h
    /\ ret' = [fn |-> "ctx",
               arg |-> [fn |-> fn, parent |-> parent, input |-> input,
                        attrsBefore |->
                            AttributesFromContext(ret.val[parent], heap),
                        tagsBefore |-> TagsFromContext(ret.val[parent])],
               val |-> Append(ret.val, r.ctx)]
    /\ UNCHANGED <<builders, errs, concVars, held>>

DoWithTagsValue ==
    \E c \in 1..Len(ret.val), tags \in CtxTags :
        KeepContext("WithTagsValue", c, tags,
                    WithTagsValue(ret.val[c], tags, heap))

DoWithAttributes ==
    \E c \in 1..Len(ret.val), attrs \in CtxAttrs :
        KeepContext("WithAttributes", c, attrs,
                    WithAttributes(ret.val[c], attrs, heap))

DoWithAttributesValue ==
    \E c \in 1..Len(ret.val), attrs \in CtxAttrs :
        KeepContext("WithAttributesValue", c, attrs,
                    WithAttributesValue(ret.val[c], attrs, heap))

ContextNext == DoWithTagsValue \/ DoWithAttributes \/ DoWithAttributesValue

ContextSpec == ContextInit /\ [][ContextNext]_vars

(***************************************************************************)
(* The probes on errors of other types.  A client builds error values that *)
(* have the exit code capability or the recoverable capability, wrapping   *)
(* errors built before, and calls the probes on nil and on what it built.  *)
(***************************************************************************)
ProbeInit ==
    /\ builders = {}
    /\ errs = <<>>
    /\ heap = [tagmaps |-> <<>>, attrmaps |-> <<>>, arrays |-> <<>>]
    /\ ret = NoCall
    /\ NoThreads

\* the lists of earlier errors, in ascending order
RECURSIVE AscLists(_)
AscLists(n) ==
    IF n = 0 THEN {<<>>}
    ELSE AscLists(n - 1) \cup {Append(l, n) : l \in AscLists(n - 1)}

\* What an error type of the client has besides Error(): nothing, an
\* Unwrap() error that returns nil, an exit code, or a recoverable flag.
Profiles ==
    {[caps |-> {}, exitCode |-> 0, recoverable |-> FALSE],
     [caps |-> {"UnwrapOne"}, exitCode |-> 0, recoverable |-> FALSE]}
    \cup {[caps |-> {"ErrorExitCode"}, exitCode |-> c, recoverable |-> FALSE] :
             c \in ExitVals}
    \cup {[caps |-> {"ErrorRecoverable"}, exitCode |-> 0, recoverable |-> r] :
             r \in BOOLEAN}

\* The new error exposes the earlier errors it wraps through ErrorCauses.
NewForeign ==
    /\ Len(errs) < MaxNodes
    /\ \E p \in Profiles, kids \in AscLists(Len(errs)) :
          errs' = Append(errs,
                Foreign("x",
                        p.caps \cup (IF kids # <<>> THEN {"ErrorCauses"}
                                     ELSE {}),
                        p.exitCode, p.recoverable, kids, <<>>, Nil, Nil))
    /\ ret' = NoCall
    /\ UNCHANGED <<builders, heap, concVars, held>>

\* the errors a probe is called on: nil and the error built last
ProbeArgs == {Nil, Len(errs)}

Call(fn, arg, val) ==
    /\ ret' = [fn |-> fn, arg |-> arg, val |-> val]
    /\ UNCHANGED <<builders, errs, heap, concVars, held>>

CallExitCode == \E e \in ProbeArgs : Call("ExitCode", e, ExitCode(e))

CallIsRecoverable ==
    \E e \in ProbeArgs : Call("IsRecoverable", e, IsRecoverable(e))

ProbeNext == NewForeign \/ CallExitCode \/ CallIsRecoverable

ProbeSpec == ProbeInit /\ [][ProbeNext]_vars

(***************************************************************************)
(* Causes on errors of other types that have any of the four ways to show  *)
(* causes: ErrorCauses() []error, Unwrap() []error, Unwrap() error and     *)
(* Cause() error.  Each way returns something else; Unwrap() error and     *)
(* Cause() can return nil.                                                 *)
(***************************************************************************)
Leaves == <<PlainError("a"), PlainError("b"), PlainError("c"), PlainError("d")>>

CauseCaps == {"ErrorCauses", "UnwrapMany", "UnwrapOne", "Cause"}

FallbackInit ==
    /\ builders = {}
    /\ errs = Leaves
    /\ heap = [tagmaps |-> <<>>, attrmaps |-> <<>>, arrays |-> <<>>]
    /\ ret = NoCall
    /\ NoThreads

NewWrapper ==
    /\ Len(errs) < Len(Leaves) + MaxWrappers
    /\ \E caps \in SUBSET CauseCaps, one \in {Nil, 3}, cause \in {Nil, 4} :
          errs' = Append(errs,
                         Foreign("w", caps, 0, FALSE, <<1>>, <<2>>, one, cause))
    /\ ret' = NoCall
    /\ UNCHANGED <<builders, heap, concVars, held>>

CallCauses == \E e \in ProbeArgs : Call("Causes", e, Causes(e))

FallbackNext == NewWrapper \/ CallCauses \/ CallExitCode \/ CallIsRecoverable

FallbackSpec == FallbackInit /\ [][FallbackNext]_vars

(***************************************************************************)
(* Two threads call a method each on the same builder value.  A call on a  *)
(* value receiver copies the struct and then works on the maps and the     *)
(* backing array the copy points to.  Nothing in the package locks, so an  *)
(* access to a map or to an array element takes two steps here, its begin  *)
(* and its end, and other threads run in between.                          *)
(***************************************************************************)
Threads == {1, 2}

\* the snapshot: New() with n causes appended in one Causes call
Snapshot(n) == Builder_Causes(New([tagmaps |-> <<>>, attrmaps |-> <<>>,
                                   arrays |-> <<>>]).b,
                              [i \in 1..n |-> 1],
                              New([tagmaps |-> <<>>, attrmaps |-> <<>>,
                                   arrays |-> <<>>]).h)

NoOp == [name |-> "", tag |-> "", attrs |-> <<>>, err |-> Nil, msg |-> ""]

ThreadOps ==
    {[NoOp EXCEPT !.name = "Tag", !.tag = t] : t \in TagVals}
    \cup {[NoOp EXCEPT !.name = "Attr", !.attrs = [k \in {key} |-> v]] :
             key \in AttrKeys, v \in AttrVals}
    \cup {[NoOp EXCEPT !.name = "Attrs", !.attrs = m] : m \in AttrMaps}
    \cup {[NoOp EXCEPT !.name = "Cause", !.err = c] : c \in {Nil, 1}}
    \cup {[NoOp EXCEPT !.name = "Related", !.err = c] : c \in {Nil, 1}}
    \cup {[NoOp EXCEPT !.name = "Msg", !.msg = m] : m \in MsgVals}

\* a thread that has not called yet
Idle == [pc |-> "idle", op |-> NoOp, b |-> shared.b, raced |-> FALSE]

ConcInit ==
    /\ builders = {}
    /\ errs = <<PlainError("io")>>
    /\ ret = NoCall
    /\ \E n \in 0..MaxSnapCauses :
          /\ shared = Snapshot(n)
          /\ heap = Snapshot(n).h
    /\ threads = [t \in Threads |-> Idle]
    /\ crashed = FALSE
    /\ held = NoHeld

\* the slice a Cause or Related call appends to
TargetSlice(th) ==
    IF th.op.name = "Cause" THEN th.b.causes ELSE th.b.related

\* the memory the thread is accessing between the begin and the end of an
\* access, and whether it writes
Access(th) ==
    IF th.pc = "mapassign"
    THEN [locs |-> IF th.op.name = "Tag"
                   THEN {<<"tagmap", th.b.tags>>}
                   ELSE {<<"attrmap", th.b.attributes>>},
          write |-> TRUE]
    ELSE IF th.pc = "store"
    THEN [locs |-> {<<"array", TargetSlice(th).arr, TargetSlice(th).len + 1>>},
          write |-> TRUE]
    ELSE IF th.pc = "growslice"
    THEN [locs |-> {<<"array", TargetSlice(th).arr, i>> :
                       i \in 1..TargetSlice(th).len},
          write |-> FALSE]
    ELSE [locs |-> {}, write |-> FALSE]

Conflict(th1, th2) ==
    /\ Access(th1).locs \cap Access(th2).locs # {}
    /\ Access(th1).write \/ Access(th2).write

\* the call starts: the receiver is a copy of the shared struct
Start(t) ==
    /\ ~crashed
    /\ threads[t].pc = "idle"
    /\ \E op \in ThreadOps :
          threads' = [threads EXCEPT ![t] =
                         [pc |-> "call", op |-> op, b |-> shared.b,
                          raced |-> FALSE]]
    /\ UNCHANGED <<builders, errs, heap, ret, held, shared, crashed>>

\* thread t moves to pc with an access in flight; it and every thread whose
\* access in flight conflicts with it have raced
Begin(t, pc) ==
    LET me == [threads[t] EXCEPT !.pc = pc]
    IN threads' = [u \in Threads |->
           IF u = t
           THEN [me EXCEPT !.raced =
                     \E v \in Threads \ {t} : Conflict(me, threads[v])]
           ELSE IF Conflict(me, threads[u])
                THEN [threads[u] EXCEPT !.raced = TRUE]
                ELSE threads[u]]

Finish(t, b) ==
    threads' = [threads EXCEPT ![t] = [@ EXCEPT !.pc = "done", !.b = b]]

\* b.tags[tag] = struct{}{}, b.attributes[key] = value, maps.Copy
BeginMapWrite(t) ==
    /\ ~crashed
    /\ threads[t].pc = "call"
    /\ threads[t].op.name \in {"Tag", "Attr", "Attrs"}
    /\ Begin(t, "mapassign")
    /\ UNCHANGED <<builders, errs, heap, ret, held, shared, crashed>>

\* The write is done.  A map write that ran together with another write of
\* the same map either takes effect or makes the runtime stop the process
\* ("fatal error: concurrent map writes").
EndMapWrite(t) ==
    /\ ~crashed
    /\ threads[t].pc = "mapassign"
    /\ LET th == threads[t]
           r == IF th.op.name = "Tag" THEN Builder_Tag(th.b, th.op.tag, heap)
                ELSE Builder_Attrs(th.b, th.op.attrs, heap)
       IN \/ /\ heap' = r.h
             /\ Finish(t, r.b)
             /\ UNCHANGED crashed
          \/ /\ th.raced
             /\ crashed' = TRUE
             /\ UNCHANGED <<heap, threads>>
    /\ UNCHANGED <<builders, errs, ret, held, shared>>

\* Cause(nil), Related(nil): the loop appends nothing
SkipNil(t) ==
    /\ ~crashed
    /\ threads[t].pc = "call"
    /\ threads[t].op.name \in {"Cause", "Related"}
    /\ threads[t].op.err = Nil
    /\ Finish(t, threads[t].b)
    /\ UNCHANGED <<builders, errs, heap, ret, held, shared, crashed>>

\* append with spare capacity: a store into the shared backing array
BeginStore(t) ==
    /\ ~crashed
    /\ threads[t].pc = "call"
    /\ threads[t].op.name \in {"Cause", "Related"}
    /\ threads[t].op.err # Nil
    /\ TargetSlice(threads[t]).len < TargetSlice(threads[t]).cap
    /\ Begin(t, "store")
    /\ UNCHANGED <<builders, errs, heap, ret, held, shared, crashed>>

\* the store is done; two stores of an interface value into one element
\* that ran together can leave the words of both
EndStore(t) ==
    /\ ~crashed
    /\ threads[t].pc = "store"
    /\ LET th == threads[t]
           s == TargetSlice(th)
           grown == [s EXCEPT !.len = s.len + 1]
           b == IF th.op.name = "Cause" THEN [th.b EXCEPT !.causes = grown]
                ELSE [th.b EXCEPT !.related = grown]
       IN /\ \E v \in {th.op.err} \cup (IF th.raced THEN {Torn} ELSE {}) :
                heap' = [heap EXCEPT !.arrays[s.arr][s.len + 1] = v]
          /\ Finish(t, b)
    /\ UNCHANGED <<builders, errs, ret, held, shared, crashed>>

\* append without spare capacity: growslice reads the old elements
BeginGrow(t) ==
    /\ ~crashed
    /\ threads[t].pc = "call"
    /\ threads[t].op.name \in {"Cause", "Related"}
    /\ threads[t].op.err # Nil
    /\ TargetSlice(threads[t]).len = TargetSlice(threads[t]).cap
    /\ Begin(t, "growslice")
    /\ UNCHANGED <<builders, errs, heap, ret, held, shared, crashed>>

\* and the element goes into the new array, which only this thread knows
EndGrow(t) ==
    /\ ~crashed
    /\ threads[t].pc = "growslice"
    /\ LET th == threads[t]
           r == IF th.op.name = "Cause"
                THEN Builder_Cause(th.b, <<th.op.err>>, heap)
                ELSE Builder_Related(th.b, <<th.op.err>>, heap)
       IN /\ heap' = r.h
          /\ Finish(t, r.b)
    /\ UNCHANGED <<builders, errs, ret, held, shared, crashed>>

\* Msg works on the copy alone; the *Ae it returns is the copy
ThreadMsg(t) ==
    /\ ~crashed
    /\ threads[t].pc = "call"
    /\ threads[t].op.name = "Msg"
    /\ Finish(t, Builder_Msg(threads[t].b, threads[t].op.msg).ae)
    /\ UNCHANGED <<builders, errs, heap, ret, held, shared, crashed>>

ConcNext ==
    \E t \in Threads :
        \/ Start(t)
        \/ BeginMapWrite(t) \/ EndMapWrite(t)
        \/ SkipNil(t)
        \/ BeginStore(t) \/ EndStore(t)
        \/ BeginGrow(t) \/ EndGrow(t)
        \/ ThreadMsg(t)

ConcSpec == ConcInit /\ [][ConcNext]_vars

(***************************************************************************)
(* The accessors of *Ae hand out containers.  The client keeps the one the *)
(* last call returned and writes into it.                                  *)
(***************************************************************************)
\* the orders in which a range over a Go map can visit the keys in S
Orders(S) ==
    {f \in [1..Cardinality(S) -> S] :
        \A i, j \in 1..Cardinality(S) : f[i] = f[j] => i = j}

\* slices.Collect(maps.Keys(a.tags)): a new slice, the keys in map order
Ae_ErrorTags(a, h) == Orders(h.tagmaps[a.tags])

\* maps.Clone(a.attributes)
Ae_ErrorAttributes(a, h) ==
    [m |-> Len(h.attrmaps) + 1,
     h |-> [h EXCEPT !.attrmaps = Append(@, h.attrmaps[a.attributes])]]

\* variant: the internal slice itself is handed out
Ae_ErrorCauses_NoClone(a, h) == [s |-> a.causes, h |-> h]

\* slices.Clone(a.causes)
Ae_ErrorCauses(a, h) == slicesClone(a.causes, h)

\* slices.Clone(a.related)
Ae_ErrorRelated(a, h) == slicesClone(a.related, h)

\* Unwrap returns a.ErrorCauses()
Ae_Unwrap(a, h) == Ae_ErrorCauses(a, h)

\* slices.Clone(a.stacks)
Ae_ErrorStacks(a) == a.stacks

AeRefs == {e \in 1..Len(errs) : errs[e].type = "Ae"}

\* The client keeps the slice a call returned.  A backing array the call
\* has just allocated is known to the client alone: it is kept with the
\* client (own, vals) and not on the heap of the package.
HoldSlice(kind, e, r) ==
    /\ IF r.s.arr > Len(heap.arrays)
       THEN held' = [NoHeld EXCEPT !.kind = kind, !.of = e, !.own = TRUE,
                                   !.vals = SliceElems(r.s, r.h)]
       ELSE held' = [NoHeld EXCEPT !.kind = kind, !.of = e, !.slice = r.s]
    /\ UNCHANGED <<builders, errs, heap, ret, concVars>>

DoErrorCauses ==
    \E e \in AeRefs : HoldSlice("causes", e, Ae_ErrorCauses(errs[e].ae, heap))

DoErrorRelated ==
    \E e \in AeRefs : HoldSlice("related", e, Ae_ErrorRelated(errs[e].ae, heap))

DoUnwrap ==
    \E e \in AeRefs : HoldSlice("unwrap", e, Ae_Unwrap(errs[e].ae, heap))

\* the same for the map a call returned
DoErrorAttributes ==
    \E e \in AeRefs :
        LET r == Ae_ErrorAttributes(errs[e].ae, heap)
        IN /\ IF r.m > Len(heap.attrmaps)
              THEN held' = [NoHeld EXCEPT !.kind = "attributes", !.of = e,
                                          !.own = TRUE,
                                          !.entries = r.h.attrmaps[r.m]]
              ELSE held' = [NoHeld EXCEPT !.kind = "attributes", !.of = e,
                                          !.map = r.m]
           /\ UNCHANGED <<builders, errs, heap, ret, concVars>>

DoErrorTags ==
    \E e \in AeRefs : \E ts \in Ae_ErrorTags(errs[e].ae, heap) :
        /\ held' = [NoHeld EXCEPT !.kind = "tags", !.of = e, !.own = TRUE,
                                  !.vals = ts]
        /\ UNCHANGED <<builders, errs, heap, ret, concVars>>

DoErrorStacks ==
    \E e \in AeRefs :
        /\ held' = [NoHeld EXCEPT !.kind = "stacks", !.of = e, !.own = TRUE,
                                  !.vals = Ae_ErrorStacks(errs[e].ae)]
        /\ UNCHANGED <<builders, errs, heap, ret, concVars>>

\* the client assigns to an element of the slice it holds, or appends to it
DoWriteSlice(L) ==
    /\ held.kind \in {"causes", "related", "unwrap"}
    /\ held.writes < L.writes
    /\ \E x \in ErrRefs :
          IF held.own
          THEN /\ \/ \E i \in 1..Len(held.vals) :
                        held' = [held EXCEPT !.vals[i] = x, !.writes = @ + 1]
                  \/ held' = [held EXCEPT !.vals = Append(@, x),
                                          !.writes = @ + 1]
               /\ UNCHANGED heap
          ELSE \/ \E i \in 1..held.slice.len :
                     /\ heap' = [heap EXCEPT !.arrays[held.slice.arr][i] = x]
                     /\ held' = [held EXCEPT !.writes = @ + 1]
               \/ LET r == append(held.slice, x, heap)
                  IN IF r.s.arr > Len(heap.arrays)
                     THEN /\ held' = [held EXCEPT !.own = TRUE,
                                         !.slice = NilSlice,
                                         !.vals = SliceElems(r.s, r.h),
                                         !.writes = @ + 1]
                          /\ UNCHANGED heap
                     ELSE /\ heap' = r.h
                          /\ held' = [held EXCEPT !.slice = r.s,
                                                  !.writes = @ + 1]
    /\ UNCHANGED <<builders, errs, ret, concVars>>

\* the client assigns to a key of the map it holds
DoWriteMap(L) ==
    /\ held.kind = "attributes"
    /\ held.writes < L.writes
    /\ \E k \in AttrKeys, v \in AttrVals :
          IF held.own
          THEN /\ held' = [held EXCEPT !.entries = mapPut(@, k, v),
                                       !.writes = @ + 1]
               /\ UNCHANGED heap
          ELSE /\ heap' = [heap EXCEPT !.attrmaps[held.map] = mapPut(@, k, v)]
               /\ held' = [held EXCEPT !.writes = @ + 1]
    /\ UNCHANGED <<builders, errs, ret, concVars>>

\* the client assigns to an element of the []string or []*Stack it holds,
\* or appends to it
DoWriteVals(L) ==
    /\ held.kind \in {"tags", "stacks"}
    /\ held.writes < L.writes
    /\ \/ \E i \in 1..Len(held.vals) :
             held' = [held EXCEPT !.vals[i] = "x", !.writes = @ + 1]
       \/ held' = [held EXCEPT !.vals = Append(@, "x"), !.writes = @ + 1]
    /\ UNCHANGED <<builders, errs, heap, ret, concVars>>

\* From(e).Msg(Message(e)): the error is taken into a builder and frozen
\* again under its own message
DoReFreeze(L) ==
    \E e \in AeRefs :
        LET r == From(e, errs, heap)
        IN /\ Len(errs) < L.errs
           /\ Len(r.h.arrays) <= L.arrays
           /\ Len(r.h.attrmaps) <= L.maps
           /\ errs' = Append(errs, Builder_Msg(r.b, Message(e)))
           /\ heap' = r.h
           /\ ret' = [fn |-> "ReFreeze", arg |-> e, val |-> Len(errs) + 1]
           /\ UNCHANGED <<builders, concVars, held>>

\* An error a function returned whose builder is gone:
\* New().Tags("a", "").Attr("k", 1).Cause(io).Related(io).Msg("m")
BuiltError ==
    LET n == New([tagmaps |-> <<>>, attrmaps |-> <<>>, arrays |-> <<>>])
        t == Builder_Tags(n.b, <<"a", "">>, n.h)
        a == Builder_Attr(t.b, "k", 1, t.h)
        c == Builder_Cause(a.b, <<1>>, a.h)
        r == Builder_Related(c.b, <<1>>, c.h)
    IN [e |-> Builder_Msg(r.b, "m"), h |-> r.h]

FirstErrs == <<PlainError("io"), BuiltError.e>>

BuiltRef == Len(FirstErrs)

CopyInit ==
    /\ builders = {}
    /\ errs = FirstErrs
    /\ heap = BuiltError.h
    /\ ret = NoCall
    /\ NoThreads

CopyLimits == [builders |-> MaxCopyBuilders, errs |-> MaxCopyErrs,
               args |-> MaxArgs, arrays |-> MaxCopyArrays,
               maps |-> MaxCopyMaps, writes |-> MaxWrites]

\* a builder call of CopySpec; each of them makes maps
KeepMaps(A, L) == A /\ Len(heap'.attrmaps) <= L.maps

CopyNext ==
    \/ KeepMaps(DoFrom(CopyLimits), CopyLimits)
    \/ DoTag(CopyLimits) \/ DoAttr(CopyLimits)
    \/ DoCause(CopyLimits) \/ DoRelated(CopyLimits)
    \/ DoReFreeze(CopyLimits)

\* the accessors of the built error and the writes of the client
AccNext ==
    \/ DoErrorCauses \/ DoErrorRelated \/ DoUnwrap
    \/ DoErrorAttributes
    \/ DoErrorTags \/ DoErrorStacks
    \/ DoWriteSlice(CopyLimits) \/ DoWriteMap(CopyLimits)
    \/ DoWriteVals(CopyLimits)
    \/ DoReFreeze(CopyLimits)

AccSpec == CopyInit /\ [][AccNext]_vars

CopySpec == CopyInit /\ [][CopyNext]_vars

(***************************************************************************)
(* The helper functions: From on any error, AddRelated, the Wrap family    *)
(* and errors.Join.  A call returns nil, a reference to an error, or it    *)
(* panics; the error it makes is put on the heap.                          *)
(***************************************************************************)
Panic == -2 \* the call did not return: index out of range

NonNil(list) == SelectSeq(list, LAMBDA e : e # Nil)

\* Error(): the text of an error of another type; for *Ae the message,
\* then ": " and the text of the one cause or the bracketed list of them
RECURSIVE Error(_, _, _)
RECURSIVE JoinTexts(_, _, _)
JoinTexts(list, E, h) ==
    IF list = <<>> THEN ""
    ELSE IF Len(list) = 1 THEN Error(list[1], E, h)
    ELSE Error(list[1], E, h) \o "; " \o JoinTexts(Tail(list), E, h)

Error(err, E, h) ==
    IF E[err].type # "Ae" THEN E[err].text
    ELSE LET a == E[err].ae
             cs == SliceElems(a.causes, h)
         IN IF cs = <<>> THEN a.msg
            ELSE IF Len(cs) = 1 THEN a.msg \o ": " \o Error(cs[1], E, h)
            ELSE a.msg \o ": [" \o JoinTexts(cs, E, h) \o "]"

ReturnNil(E, h) == [val |-> Nil, E |-> E, h |-> h]

\* the terminal call returns the address of a new *Ae
ReturnNew(e, E, h) == [val |-> Len(E) + 1, E |-> Append(E, e), h |-> h]

\* AddRelated: From(err).Related(related...).Msg(Message(err))
AddRelated(err, related, E, h) ==
    IF err = Nil THEN ReturnNil(E, h)
    ELSE LET f == From(err, E, h)
             r == Builder_Related(f.b, related, f.h)
         IN ReturnNew(Builder_Msg(r.b, Message(err)), E, r.h)

\* Wrap: New().Cause(err).Msg(msg)
Wrap(msg, err, E, h) ==
    IF err = Nil THEN ReturnNil(E, h)
    ELSE LET n == New(h)
             c == Builder_Cause(n.b, <<err>>, n.h)
         IN ReturnNew(Builder_Msg(c.b, msg), E, c.h)

\* Wrapf: Wrap(fmt.Sprintf(msg, args...), err); a format without verbs and
\* without arguments is its own text
Wrapf(msg, err, E, h) == Wrap(msg, err, E, h)

\* WrapMany: nil when the filtered list is empty, else
\* New().Causes(filtered).Msg(msg)
WrapMany(msg, list, E, h) ==
    LET filtered == NonNil(list)
    IN IF Len(filtered) = 0 THEN ReturnNil(E, h)
       ELSE LET n == New(h)
                c == Builder_Causes(n.b, filtered, n.h)
            IN ReturnNew(Builder_Msg(c.b, msg), E, c.h)

\* What a context carries: tags and attributes (no valid span).
Contexts ==
    {[tags |-> <<>>, attrs |-> [k \in {} |-> 0]],
     [tags |-> <<"a">>, attrs |-> [k \in {"k"} |-> 1]]}

\* Builder.Context without keys: the tags and attributes of the context
Builder_Context(b, ctx, h) ==
    LET t == Builder_Tags(b, ctx.tags, h)
    IN Builder_Attrs(t.b, ctx.attrs, t.h)

NewC(ctx, h) == LET n == New(h) IN Builder_Context(n.b, ctx, n.h)

\* WrapC: NewC(ctx).Cause(err).Msg(msg), nil for nil
WrapC(ctx, msg, err, E, h) ==
    IF err = Nil THEN ReturnNil(E, h)
    ELSE LET n == NewC(ctx, h)
             c == Builder_Cause(n.b, <<err>>, n.h)
         IN ReturnNew(Builder_Msg(c.b, msg), E, c.h)

\* WrapCf: NewC(ctx).Cause(err).Msgf(msg, args...); err is not looked at.
\* Msgf freezes the builder under the formatted message.
WrapCf(ctx, msg, err, E, h) ==
    LET n == NewC(ctx, h)
        c == Builder_Cause(n.b, <<err>>, n.h)
    IN ReturnNew(Builder_Msg(c.b, msg), E, c.h)

\* errors.Join: the switch is on the number of arguments, the result is
\* made of the filtered list
Join(list, E, h) ==
    LET filtered == NonNil(list)
    IN IF Len(list) = 0 THEN ReturnNil(E, h)
       ELSE IF Len(list) = 1
            THEN IF Len(filtered) = 0 THEN [val |-> Panic, E |-> E, h |-> h]
                 ELSE [val |-> filtered[1], E |-> E, h |-> h]
       ELSE LET n == New(h)
                c == Builder_Causes(n.b, filtered, n.h)
            IN ReturnNew(Builder_Msg(c.b, "[" \o JoinTexts(filtered, E, h) \o "]"),
                         E, c.h)

UtilLimits == [errs |-> MaxUtilErrs,
               args |-> MaxUtilArgs, arrays |-> MaxUtilArrays,
               maps |-> MaxUtilMaps]

\* the argument lists of the variadic helpers, the empty one included
UtilLists == {<<>>} \cup ErrLists(UtilLimits)

\* a helper was called on the arguments arg and returned r.val
Return(fn, arg, r, L) ==
    /\ Len(r.E) <= L.errs
    /\ Len(r.h.arrays) <= L.arrays
    /\ Len(r.h.attrmaps) <= L.maps
    /\ errs' = r.E
    /\ heap' = r.h
    /\ ret' = [fn |-> fn, arg |-> arg, val |-> r.val]
    /\ UNCHANGED <<builders, concVars, held>>

\* b := From(e): the client keeps the builder
DoFromError(L) ==
    \E e \in ErrRefs :
        LET r == From(e, errs, heap)
        IN /\ Len(r.h.arrays) <= L.arrays
           /\ Len(r.h.attrmaps) <= L.maps
           /\ builders' = {r.b}
           /\ heap' = r.h
           /\ ret' = [fn |-> "From", arg |-> <<e>>, val |-> Nil]
           /\ UNCHANGED <<errs, concVars, held>>

DoAddRelated(L) ==
    \E e \in ErrRefs, rs \in UtilLists :
        Return("AddRelated", <<e>> \o rs, AddRelated(e, rs, errs, heap), L)

DoWrap(L) == \E e \in ErrRefs : Return("Wrap", <<e>>, Wrap("m", e, errs, heap), L)

DoWrapf(L) ==
    \E e \in ErrRefs : Return("Wrapf", <<e>>, Wrapf("m", e, errs, heap), L)

DoWrapC(L) ==
    \E e \in ErrRefs, ctx \in Contexts :
        Return("WrapC", <<e>>, WrapC(ctx, "m", e, errs, heap), L)

DoWrapCf(L) ==
    \E e \in ErrRefs, ctx \in Contexts :
        Return("WrapCf", <<e>>, WrapCf(ctx, "m", e, errs, heap), L)

DoWrapMany(L) ==
    \E es \in UtilLists : Return("WrapMany", es, WrapMany("m", es, errs, heap), L)

DoJoin(L) == \E es \in UtilLists : Return("Join", es, Join(es, errs, heap), L)

\* errors of other types: a plain one and one that wraps it (Unwrap() error),
\* and the built error
UtilErrs ==
    <<PlainError("io"),
      Foreign("x: io", {"UnwrapOne"}, 0, FALSE, <<>>, <<>>, 1, Nil),
      BuiltError.e>>

UtilInit ==
    /\ builders = {}
    /\ errs = UtilErrs
    /\ heap = BuiltError.h
    /\ ret = NoCall
    /\ NoThreads

UtilNext ==
    \/ DoFromError(UtilLimits)
    \/ DoAddRelated(UtilLimits)
    \/ DoWrap(UtilLimits) \/ DoWrapf(UtilLimits)
    \/ DoWrapC(UtilLimits) \/ DoWrapCf(UtilLimits)
    \/ DoWrapMany(UtilLimits)
    \/ DoJoin(UtilLimits)

UtilSpec == UtilInit /\ [][UtilNext]_vars

(***************************************************************************)
(* The printer.  Its options are applied in order: the defaults, the       *)
(* options of the caller, and WithCauses last.                             *)
(***************************************************************************)
ZeroPrinter ==
    [colors |-> FALSE, json |-> FALSE, indent |-> 0, maxDepth |-> 0,
     userMsg |-> FALSE, hint |-> FALSE, timestamp |-> FALSE, code |-> FALSE,
     exitCode |-> FALSE, traceId |-> FALSE, spanId |-> FALSE, tags |-> FALSE,
     attributes |-> FALSE, causes |-> FALSE, related |-> FALSE,
     stacks |-> FALSE]

Option(name, arg) == [name |-> name, arg |-> arg]

RECURSIVE ApplyOptions(_, _)

WithVerbose ==
    <<Option("WithUserMessage", 0), Option("WithHint", 0),
      Option("WithTimestamp", 0), Option("WithCode", 0),
      Option("WithExitCode", 0), Option("WithColors", 0),
      Option("WithTraceId", 0), Option("WithSpanId", 0),
      Option("WithTags", 0), Option("WithAttributes", 0),
      Option("WithCauses", 0), Option("WithRelated", 0),
      Option("WithStacks", 0)>>

ApplyOption(p, o) ==
    CASE o.name = "WithUserMessage" -> [p EXCEPT !.userMsg = TRUE]
      [] o.name = "WithoutUserMessage" -> [p EXCEPT !.userMsg = FALSE]
      [] o.name = "WithHint" -> [p EXCEPT !.hint = TRUE]
      [] o.name = "WithoutHint" -> [p EXCEPT !.hint = FALSE]
      [] o.name = "WithTimestamp" -> [p EXCEPT !.timestamp = TRUE]
      [] o.name = "WithoutTimestamp" -> [p EXCEPT !.timestamp = FALSE]
      [] o.name = "WithCode" -> [p EXCEPT !.code = TRUE]
      [] o.name = "WithoutCode" -> [p EXCEPT !.code = FALSE]
      [] o.name = "WithExitCode" -> [p EXCEPT !.exitCode = TRUE]
      [] o.name = "WithoutExitCode" -> [p EXCEPT !.exitCode = FALSE]
      [] o.name = "WithColors" -> [p EXCEPT !.colors = TRUE]
      [] o.name = "WithoutColors" -> [p EXCEPT !.colors = FALSE]
      [] o.name = "WithTraceId" -> [p EXCEPT !.traceId = TRUE]
      [] o.name = "WithoutTraceId" -> [p EXCEPT !.traceId = FALSE]
      [] o.name = "WithSpanId" -> [p EXCEPT !.spanId = TRUE]
      [] o.name = "WithoutSpanId" -> [p EXCEPT !.spanId = FALSE]
      [] o.name = "WithTags" -> [p EXCEPT !.tags = TRUE]
      [] o.name = "WithoutTags" -> [p EXCEPT !.tags = FALSE]
      [] o.name = "WithAttributes" -> [p EXCEPT !.attributes = TRUE]
      [] o.name = "WithoutAttributes" -> [p EXCEPT !.attributes = FALSE]
      [] o.name = "WithCauses" -> [p EXCEPT !.causes = TRUE]
      [] o.name = "WithoutCauses" -> [p EXCEPT !.causes = FALSE]
      [] o.name = "WithRelated" -> [p EXCEPT !.related = TRUE]
      [] o.name = "WithoutRelated" -> [p EXCEPT !.related = FALSE]
      [] o.name = "WithStacks" -> [p EXCEPT !.stacks = TRUE]
      [] o.name = "WithoutStacks" -> [p EXCEPT !.stacks = FALSE]
      [] o.name = "WithJSON" -> [p EXCEPT !.json = TRUE]
      [] o.name = "WithoutJSON" -> [p EXCEPT !.json = FALSE]
      [] o.name = "WithIndent" ->
            [p EXCEPT !.indent = IF o.arg <= 0 THEN 1 ELSE o.arg]
      [] o.name = "WithInfiniteDepth" -> [p EXCEPT !.maxDepth = -1]
      [] o.name = "WithMaxDepth" -> [p EXCEPT !.maxDepth = o.arg]
      [] o.name = "WithVerbose" -> ApplyOptions(p, WithVerbose)

ApplyOptions(p, opts) ==
    IF opts = <<>> THEN p
    ELSE ApplyOptions(ApplyOption(p, Head(opts)), Tail(opts))

NewPrinter(opts) ==
    ApplyOptions(ZeroPrinter,
                 <<Option("WithColors", 0), Option("WithoutJSON", 0),
                   Option("WithIndent", 2), Option("WithVerbose", 0)>>
                 \o opts \o <<Option("WithCauses", 0)>>)

\* strings.Repeat(" ", n)
RECURSIVE Spaces(_)
Spaces(n) == IF n <= 0 THEN "" ELSE " " \o Spaces(n - 1)

\* the elements of a list of texts with sep between them
RECURSIVE JoinWith(_, _)
JoinWith(list, sep) ==
    IF list = <<>> THEN ""
    ELSE IF Len(list) = 1 THEN list[1]
    ELSE list[1] \o sep \o JoinWith(Tail(list), sep)

\* What a call can print: the text, and the places in the tree of causes
\* (the path of indices from the root) of the errors it printed a node for.
\* The order in which a map is ranged over is not fixed, so a call has a
\* set of possible outputs.
NoOutput == [nodes |-> <<>>, text |-> ""]

\* formatErrorLine without colors: "{code/exit} message [tags] (hint)";
\* the tags come in the order Tags(err) returns them
formatErrorLine(p, err) ==
    LET code == IF p.code THEN Code(err) ELSE ""
        exit == IF p.exitCode /\ ExitCode(err) > 0
                THEN "/" \o ToString(ExitCode(err)) ELSE ""
        head == (IF code # "" THEN "{" \o code ELSE "") \o exit
                \o (IF code # "" THEN "} " ELSE "") \o Message(err)
        hint == IF p.hint /\ Hint(err) # ""
                THEN " (" \o Hint(err) \o ")" ELSE ""
    IN IF p.tags /\ Tags(err) # {}
       THEN {head \o " [" \o JoinWith(ts, ", ") \o "]" \o hint :
                ts \in Orders(Tags(err))}
       ELSE {head \o hint}

\* formatAttributeLine: without colors p.fmt returns the format "%v"; with
\* colors it formats the value, and adds no escape codes because the process
\* does not write to a terminal (color.NoColor)
formatAttributeLine(p, indent, key, value) ==
    Spaces(indent) \o "-> " \o key \o ": "
    \o (IF p.colors THEN value ELSE "%v")

\* printErrorCauses: a line per cause, the nested causes below it while
\* depth < maxDepth.  "|- ", "+- " and "|  " stand for the box characters.
RECURSIVE printErrorCauses(_, _, _, _, _, _)
\* variant: one level more of nested causes
printErrorCauses_OffByOne(p, causes, i, depth, prefix, path) ==
    IF i > Len(causes) THEN {NoOutput}
    ELSE LET cause == causes[i]
             isLast == i = Len(causes)
             branch == IF isLast THEN "+- " ELSE "|- "
             nextPrefix == prefix \o (IF isLast THEN "   " ELSE "|  ")
             nestedCauses == Causes(cause)
             nested ==
                 IF /\ Len(nestedCauses) > 0
                    /\ (p.maxDepth < 0 \/ depth <= p.maxDepth)
                 THEN printErrorCauses(p, nestedCauses, 1, depth + 1,
                                       nextPrefix, Append(path, i))
                 ELSE {NoOutput}
         IN {[nodes |-> <<Append(path, i)>> \o n.nodes \o rest.nodes,
              text |-> prefix \o branch \o line \o "\n" \o n.text
                       \o rest.text] :
                line \in formatErrorLine(p, cause), n \in nested,
                rest \in printErrorCauses(p, causes, i + 1, depth, prefix,
                                          path)}

printErrorCauses(p, causes, i, depth, prefix, path) ==
    IF i > Len(causes) THEN {NoOutput}
    ELSE LET cause == causes[i]
             isLast == i = Len(causes)
             branch == IF isLast THEN "+- " ELSE "|- "
             nextPrefix == prefix \o (IF isLast THEN "   " ELSE "|  ")
             nestedCauses == Causes(cause)
             nested ==
                 IF /\ Len(nestedCauses) > 0
                    /\ (p.maxDepth < 0 \/ depth < p.maxDepth)
                 THEN printErrorCauses(p, nestedCauses, 1, depth + 1,
                                       nextPrefix, Append(path, i))
                 ELSE {NoOutput}
         IN {[nodes |-> <<Append(path, i)>> \o n.nodes \o rest.nodes,
              text |-> prefix \o branch \o line \o "\n" \o n.text
                       \o rest.text] :
                line \in formatErrorLine(p, cause), n \in nested,
                rest \in printErrorCauses(p, causes, i + 1, depth, prefix,
                                          path)}

\* PrintErrorText: the line of the error, a line per attribute in the
\* order the map is ranged over, and the causes.  No error has stacks
\* (newStack returns nil).
PrintErrorText(p, err, depth) ==
    LET keys == (IF p.attributes THEN DOMAIN Attributes(err) ELSE {})
                \cup (IF p.traceId /\ TraceId(err) # ""
                      THEN {"Trace ID"} ELSE {})
                \cup (IF p.spanId /\ SpanId(err) # ""
                      THEN {"Span ID"} ELSE {})
        value(k) ==
            IF k = "Trace ID" /\ p.traceId /\ TraceId(err) # ""
            THEN TraceId(err)
            ELSE IF k = "Span ID" /\ p.spanId /\ SpanId(err) # ""
            THEN SpanId(err)
            ELSE ToString(Attributes(err)[k])
        attrLines ==
            {JoinWith([i \in 1..Len(ks) |->
                          "\n" \o formatAttributeLine(p, p.indent, ks[i],
                                                       value(ks[i]))], "") :
                ks \in Orders(keys)}
        causes == Causes(err)
        below ==
            IF /\ p.causes
               /\ (p.maxDepth < 0 \/ depth < p.maxDepth)
               /\ Len(causes) > 0
            THEN {[nodes |-> c.nodes,
                   text |-> (IF depth = 0 THEN "\nCauses:\n" ELSE "")
                            \o c.text] :
                     c \in printErrorCauses(p, causes, 1, depth + 1, "", <<>>)}
            ELSE {NoOutput}
    IN {[nodes |-> b.nodes, text |-> line \o attrs \o b.text] :
           line \in formatErrorLine(p, err), attrs \in attrLines,
           b \in below}

\* toJsonError: the fields the probes report; causes and related are
\* converted while depth < maxDepth.  Tags come in the order Tags(err)
\* returns them.
RECURSIVE toJsonError(_, _, _)
RECURSIVE toJsonErrors(_, _, _, _)
toJsonErrors(p, list, i, depth) ==
    IF i > Len(list) THEN {<<>>}
    ELSE {<<t>> \o rest :
             t \in toJsonError(p, list[i], depth),
             rest \in toJsonErrors(p, list, i + 1, depth)}

toJsonError(p, err, depth) ==
    LET within == p.maxDepth < 0 \/ depth < p.maxDepth
        causes == IF within THEN toJsonErrors(p, Causes(err), 1, depth + 1)
                  ELSE {<<>>}
        related == IF within THEN toJsonErrors(p, Related(err), 1, depth + 1)
                   ELSE {<<>>}
    IN {[message |-> Message(err), userMessage |-> UserMessage(err),
         hint |-> Hint(err), code |-> Code(err), exitCode |-> ExitCode(err),
         traceId |-> TraceId(err), spanId |-> SpanId(err),
         tags |-> ts, attrs |-> Attributes(err),
         causes |-> c, related |-> r] :
           ts \in Orders(Tags(err)), c \in causes, r \in related}

\* encoding/json writes the keys of a map in sorted order; these are the
\* attribute keys of the model in that order
KeyOrder == <<"", "host", "j", "k">>

SortedKeys(S) == SelectSeq(KeyOrder, LAMBDA k : k \in S)

jsonString(s) == "\"" \o s \o "\""

jsonMember(name, value) == <<jsonString(name) \o ": " \o value>>

\* an object or array of json.MarshalIndent: one element per line, indented
\* one step more than the line of the closing bracket
jsonBlock(open, elems, close, cur, ind) ==
    IF elems = <<>> THEN open \o close
    ELSE open \o "\n"
         \o JoinWith([i \in 1..Len(elems) |-> cur \o ind \o elems[i]], ",\n")
         \o "\n" \o cur \o close

\* the jsonError struct with its omitempty fields
RECURSIVE marshal(_, _, _)
marshal(je, cur, ind) ==
    LET in == cur \o ind
        text(name, s) == IF s = "" THEN <<>> ELSE jsonMember(name, jsonString(s))
        errors(name, list) ==
            IF list = <<>> THEN <<>>
            ELSE jsonMember(name,
                    jsonBlock("[", [i \in 1..Len(list) |->
                                       marshal(list[i], in \o ind, ind)],
                              "]", in, ind))
        keys == SortedKeys(DOMAIN je.attrs)
    IN jsonBlock("{",
           text("message", je.message)
           \o text("user_message", je.userMessage)
           \o text("hint", je.hint)
           \o text("code", je.code)
           \o (IF je.exitCode = 0 THEN <<>>
               ELSE jsonMember("exit_code", ToString(je.exitCode)))
           \o text("trace_id", je.traceId)
           \o text("span_id", je.spanId)
           \o (IF je.tags = <<>> THEN <<>>
               ELSE jsonMember("tags",
                       jsonBlock("[", [i \in 1..Len(je.tags) |->
                                          jsonString(je.tags[i])],
                                 "]", in, ind)))
           \o (IF keys = <<>> THEN <<>>
               ELSE jsonMember("attrs",
                       jsonBlock("{", [i \in 1..Len(keys) |->
                                          jsonString(keys[i]) \o ": "
                                          \o ToString(je.attrs[keys[i]])],
                                 "}", in, ind)))
           \o errors("causes", je.causes)
           \o errors("related", je.related),
           "}", cur, ind)

\* the places of the cause nodes of a converted error
RECURSIVE jsonNodes(_, _, _)
jsonNodes(list, i, path) ==
    IF i > Len(list) THEN <<>>
    ELSE <<Append(path, i)>> \o jsonNodes(list[i].causes, 1, Append(path, i))
         \o jsonNodes(list, i + 1, path)

printsJson(p, err, depth) ==
    {[nodes |-> jsonNodes(je.causes, 1, <<>>),
      text |-> marshal(je, "", Spaces(p.indent))] :
        je \in toJsonError(p, err, depth)}

\* Prints: the JSON or the text back end, from depth 0
Prints(p, err) ==
    IF p.json THEN printsJson(p, err, 0) ELSE PrintErrorText(p, err, 0)

(***************************************************************************)
(* Printing.  A client wraps the errors it has and prints them without     *)
(* colors, as text or JSON, with or without a depth option.                *)
(***************************************************************************)
DepthOptions ==
    {<<>>, <<Option("WithInfiniteDepth", 0)>>}
    \cup {<<Option("WithMaxDepth", n)>> : n \in -1..MaxDepthArg}

ClientOptions ==
    {<<Option("WithoutColors", 0)>> \o j \o d :
        j \in {<<>>, <<Option("WithJSON", 0)>>}, d \in DepthOptions}

\* New().Tags("a", "b").Attr("j", 1).Attr("k", 2).Hint("h").Code("c")
\*      .ExitCode(5).Cause(io).Related(io).Msg("m")
PrintedError ==
    LET n == New([tagmaps |-> <<>>, attrmaps |-> <<>>, arrays |-> <<>>])
        t == Builder_Tags(n.b, <<"a", "b">>, n.h)
        j == Builder_Attr(t.b, "j", 1, t.h)
        k == Builder_Attr(j.b, "k", 2, j.h)
        i == Builder_Hint(k.b, "h", k.h)
        o == Builder_Code(i.b, "c", i.h)
        x == Builder_ExitCode(o.b, 5, o.h)
        c == Builder_Cause(x.b, <<1>>, x.h)
        r == Builder_Related(c.b, <<1>>, c.h)
    IN [e |-> Builder_Msg(r.b, "m"), h |-> r.h]

RenderInit ==
    /\ builders = {}
    /\ errs = <<PlainError("io"), PrintedError.e>>
    /\ heap = PrintedError.h
    /\ ret = NoCall
    /\ NoThreads

RenderLimits == [errs |-> MaxRenderErrs, args |-> MaxRenderArgs,
                 arrays |-> MaxRenderArrays, maps |-> MaxRenderMaps]

\* the client prints the error it made last
DoPrints ==
    \E e \in {Len(errs)}, opts \in ClientOptions :
        LET p == NewPrinter(opts)
        IN \E out \in Prints(p, e) :
              /\ ret' = [fn |-> "Prints",
                         arg |-> [err |-> e, json |-> p.json,
                                  maxDepth |-> p.maxDepth, opts |-> opts,
                                  p |-> p],
                         val |-> out]
              /\ UNCHANGED <<builders, errs, heap, concVars, held>>

RenderNext ==
    \/ DoWrap(RenderLimits)
    \/ DoWrapMany(RenderLimits)
    \/ DoPrints

RenderSpec == RenderInit /\ [][RenderNext]_vars

(***************************************************************************)
(* The same client with another first error:                               *)
(*   t := New().ExitCode(7).Msg("timeout")                                 *)
(*   e := New().Tag("database").Cause(t).Msg("db failed")                  *)
(***************************************************************************)
ScenarioErrors ==
    LET h0 == [tagmaps |-> <<>>, attrmaps |-> <<>>, arrays |-> <<>>]
        n == New(h0)
        x == Builder_ExitCode(n.b, 7, n.h)
        m == New(x.h)
        t == Builder_Tag(m.b, "database", m.h)
        c == Builder_Cause(t.b, <<1>>, t.h)
    IN [E |-> <<Builder_Msg(x.b, "timeout"), Builder_Msg(c.b, "db failed")>>,
        h |-> c.h]

ScenarioInit ==
    /\ builders = {}
    /\ errs = ScenarioErrors.E
    /\ heap = ScenarioErrors.h
    /\ ret = NoCall
    /\ NoThreads

ScenarioSpec == ScenarioInit /\ [][RenderNext]_vars

(***************************************************************************)
(* A client that prints one error that has every field, with its own       *)
(* choice of options:                                                      *)
(*   c := New().Msg("timeout");  r := New().Msg("other")                   *)
(*   e := New().Hint("retry").Code("E42").ExitCode(7).TraceId("trace-1")   *)
(*          .SpanId("span-1").Tag("net").Attr("host", 1).Cause(c)          *)
(*          .Related(r).UserMsg("failed", "sorry")                         *)
(***************************************************************************)
FullErrors ==
    LET h0 == [tagmaps |-> <<>>, attrmaps |-> <<>>, arrays |-> <<>>]
        c == New(h0)
        r == New(c.h)
        n == New(r.h)
        i == Builder_Hint(n.b, "retry", n.h)
        o == Builder_Code(i.b, "E42", i.h)
        x == Builder_ExitCode(o.b, 7, o.h)
        t == Builder_TraceId(x.b, "trace-1", x.h)
        s == Builder_SpanId(t.b, "span-1", t.h)
        g == Builder_Tag(s.b, "net", s.h)
        a == Builder_Attr(g.b, "host", 1, g.h)
        k == Builder_Cause(a.b, <<1>>, a.h)
        l == Builder_Related(k.b, <<2>>, k.h)
    IN [E |-> <<Builder_Msg(c.b, "timeout"), Builder_Msg(r.b, "other"),
                Builder_UserMsg(l.b, "failed", "sorry")>>,
        h |-> l.h]

ToggleInit ==
    /\ builders = {}
    /\ errs = FullErrors.E
    /\ heap = FullErrors.h
    /\ ret = NoCall
    /\ NoThreads

\* the options a client passes to NewPrinter
OptionChoice ==
    {Option(n, 0) :
        n \in {"WithoutUserMessage", "WithoutHint", "WithoutCode",
               "WithoutExitCode", "WithoutTraceId", "WithoutSpanId",
               "WithoutTags", "WithoutAttributes", "WithoutCauses",
               "WithoutRelated", "WithoutStacks", "WithCauses",
               "WithoutColors", "WithJSON", "WithInfiniteDepth"}}

OptionLists ==
    UNION {[1..n -> OptionChoice] : n \in 0..MaxOptions}

\* the client makes a printer and prints the error with it, once
DoNewPrinterPrints ==
    \E opts \in OptionLists :
        LET p == NewPrinter(opts)
        IN \E out \in Prints(p, Len(errs)) :
              /\ ret = NoCall
              /\ ret' = [fn |-> "Prints",
                         arg |-> [err |-> Len(errs), json |-> p.json,
                                  maxDepth |-> p.maxDepth, opts |-> opts,
                                  p |-> p],
                         val |-> out]
              /\ UNCHANGED <<builders, errs, heap, concVars, held>>

ToggleNext == DoNewPrinterPrints

ToggleSpec == ToggleInit /\ [][ToggleNext]_vars

Spec == Init /\ [][Next]_vars

(***************************************************************************)
(* Vocabulary of the properties.  In ProbeSpec every probe call leaves the *)
(* errors as they are, so a property of all errors is evaluated in the     *)
(* states between the calls (ret = NoCall) and the value a call returned   *)
(* in the state after it.                                                  *)
(***************************************************************************)
Errors == 1..Len(errs)

CauseSet(err) == Range(Causes(err)) \ {Nil}

HasOwnCode(err) ==
    /\ err # Nil
    /\ Implements(errs[err], "ErrorExitCode")
    /\ ErrorExitCode(errs[err]) > 0

DeclaresNonRecoverable(err) ==
    /\ err # Nil
    /\ Implements(errs[err], "ErrorRecoverable")
    /\ ~ErrorIsRecoverable(errs[err])

DeclaresRecoverable(err) ==
    /\ err # Nil
    /\ Implements(errs[err], "ErrorRecoverable")
    /\ ErrorIsRecoverable(errs[err])

\* the errors reachable from the set S in at most n steps along Causes
RECURSIVE Reach(_, _)
Reach(S, n) ==
    IF n = 0 THEN S
    ELSE Reach(S \cup UNION {CauseSet(d) : d \in S}, n - 1)

\* the errors below err: its causes, their causes, ...
Below(err) == Reach(CauseSet(err), Len(errs))

\* the same, not looking below an error that has a positive code of its own
RECURSIVE ReachCodeless(_, _)
ReachCodeless(S, n) ==
    IF n = 0 THEN S
    ELSE ReachCodeless(
            S \cup UNION {CauseSet(d) : d \in {x \in S : ~HasOwnCode(x)}},
            n - 1)

VisibleCodes(err) ==
    {ErrorExitCode(errs[d]) :
        d \in {x \in ReachCodeless(CauseSet(err), Len(errs)) : HasOwnCode(x)}}

\* what the probes report of a frozen error
ProbeView(err) ==
    [message |-> Message(err), userMessage |-> UserMessage(err),
     hint |-> Hint(err), code |-> Code(err),
     exitCode |-> ErrorExitCode(errs[err]),
     traceId |-> TraceId(err), spanId |-> SpanId(err),
     tags |-> Tags(err), attributes |-> Attributes(err),
     causes |-> Causes(err), related |-> Related(err)]

\* what a builder value holds, as a later call on it would see it
BuilderView(b, h) ==
    [b EXCEPT !.tags = h.tagmaps[b.tags],
              !.attributes = h.attrmaps[b.attributes],
              !.causes = SliceElems(b.causes, h),
              !.related = SliceElems(b.related, h)]

(***************************************************************************)
(* C1: once Msg has frozen a builder into an error value, no later builder *)
(* operation changes any probe result of that error value.                 *)
(***************************************************************************)
C1_FrozenErrorImmutable ==
    [][\A e \in Errors :
          errs[e].type = "Ae" => ProbeView(e)' = ProbeView(e)]_vars

(***************************************************************************)
(* C2: every mutator clones on write: a call leaves every builder value    *)
(* obtained before it observably unchanged.                                *)
(***************************************************************************)
C2_CloneOnWrite ==
    [][\A b \in builders : BuilderView(b, heap') = BuilderView(b, heap)]_vars

(***************************************************************************)
(* C3: concurrent use of one builder snapshot never races: in no           *)
(* interleaving do two threads have conflicting accesses to the same       *)
(* memory in flight, the runtime never stops the process, and when the     *)
(* threads are done each holds what its call gives when it runs alone.     *)
(***************************************************************************)
RunAlone(op) ==
    IF op.name = "Tag" THEN Builder_Tag(shared.b, op.tag, shared.h)
    ELSE IF op.name \in {"Attr", "Attrs"}
         THEN Builder_Attrs(shared.b, op.attrs, shared.h)
    ELSE IF op.name = "Cause"
         THEN Builder_Cause(shared.b, <<op.err>>, shared.h)
    ELSE IF op.name = "Related"
         THEN Builder_Related(shared.b, <<op.err>>, shared.h)
    ELSE [b |-> Builder_Msg(shared.b, op.msg).ae, h |-> shared.h]

C3_NoRaceOnSharedSnapshot ==
    /\ ~crashed
    /\ \A t, u \in DOMAIN threads :
          t # u => ~Conflict(threads[t], threads[u])
    /\ (\A t \in DOMAIN threads : threads[t].pc = "done") =>
          \A t \in DOMAIN threads :
              BuilderView(threads[t].b, heap) =
                 BuilderView(RunAlone(threads[t].op).b,
                             RunAlone(threads[t].op).h)

(***************************************************************************)
(* C4: the causes relation of every error built through the builder is     *)
(* acyclic: no error is reachable from itself via Causes.                  *)
(***************************************************************************)
C4_CausesAcyclic == \A e \in Errors : e \notin Below(e)

(***************************************************************************)
(* C5: IsRecoverable(err) is true iff err is nil, or err does not declare  *)
(* itself non-recoverable and every cause is recoverable; so it is true    *)
(* exactly when no error of the tree declares itself non-recoverable, a    *)
(* declared "recoverable" not hiding what is below it.                     *)
(***************************************************************************)
C5_IsRecoverableConjunction ==
    /\ IsRecoverable(Nil)
    /\ ret = NoCall => \A e \in Errors :
          /\ IsRecoverable(e) =
                (/\ ~DeclaresNonRecoverable(e)
                 /\ \A i \in 1..Len(Causes(e)) : IsRecoverable(Causes(e)[i]))
          /\ IsRecoverable(e) =
                (\A d \in {e} \cup Below(e) : ~DeclaresNonRecoverable(d))
    /\ (ret.fn = "IsRecoverable" /\ ret.arg # Nil) =>
          ret.val = (\A d \in {ret.arg} \cup Below(ret.arg) :
                        ~DeclaresNonRecoverable(d))

\* IsRecoverable was called on an error that declares itself recoverable
\* and has a non-recoverable error two levels below: it returned false
C5_Witness ==
    /\ ret.fn = "IsRecoverable"
    /\ DeclaresRecoverable(ret.arg)
    /\ \E c \in CauseSet(ret.arg) :
          /\ ~DeclaresNonRecoverable(c)
          /\ \E d \in CauseSet(c) : DeclaresNonRecoverable(d)
    /\ ret.val = FALSE

(***************************************************************************)
(* C6: recoverable defaults to true: an error built with New() and frozen  *)
(* with Msg, with no causes, reports ErrorIsRecoverable() = true and       *)
(* IsRecoverable = true.                                                   *)
(***************************************************************************)
C6_RecoverableDefaultsTrue ==
    \A e \in Errors :
        (errs[e].type = "Ae" /\ Causes(e) = <<>>) =>
            ErrorIsRecoverable(errs[e]) /\ IsRecoverable(e)

(***************************************************************************)
(* C7: an error that exposes a positive exit code of its own has exactly   *)
(* that ExitCode, whatever the exit codes of its causes.                   *)
(***************************************************************************)
C7_OwnExitCodeReturned ==
    /\ ret = NoCall => \A e \in Errors :
          HasOwnCode(e) => ExitCode(e) = ErrorExitCode(errs[e])
    /\ (ret.fn = "ExitCode" /\ HasOwnCode(ret.arg)) =>
          ret.val = ErrorExitCode(errs[ret.arg])

\* ExitCode was called on an error with a code of its own and a cause with
\* a larger exit code: it returned the error's own code
C7_Witness ==
    /\ ret.fn = "ExitCode"
    /\ HasOwnCode(ret.arg)
    /\ \E c \in CauseSet(ret.arg) : ExitCode(c) > ErrorExitCode(errs[ret.arg])
    /\ ret.val = ErrorExitCode(errs[ret.arg])

(***************************************************************************)
(* C8: a non-nil error without a positive exit code of its own has the     *)
(* largest of 1 and the ExitCode of its causes, so a code declared at any  *)
(* depth below wrappers that set none comes up to the root.                *)
(***************************************************************************)
C8_ExitCodeFromCauses ==
    /\ ret = NoCall => \A e \in Errors :
          ~HasOwnCode(e) =>
             /\ ExitCode(e) =
                   Max({1} \cup {ExitCode(Causes(e)[i]) :
                                    i \in 1..Len(Causes(e))})
             /\ ExitCode(e) = Max({1} \cup VisibleCodes(e))
    /\ (ret.fn = "ExitCode" /\ ret.arg # Nil /\ ~HasOwnCode(ret.arg)) =>
          ret.val = Max({1} \cup VisibleCodes(ret.arg))

\* ExitCode was called on a wrapper without a code around a wrapper without
\* a code around an error with a code above 1: it returned that code
C8_Witness ==
    /\ ret.fn = "ExitCode"
    /\ ret.arg # Nil
    /\ ~HasOwnCode(ret.arg)
    /\ \E c \in CauseSet(ret.arg) :
          /\ ~HasOwnCode(c)
          /\ \E d \in CauseSet(c) :
                /\ HasOwnCode(d)
                /\ ErrorExitCode(errs[d]) > 1
                /\ ret.val = ErrorExitCode(errs[d])

(***************************************************************************)
(* C9, as stated: an error with the explicit exit code 5 and a cause with  *)
(* exit code 9 has ExitCode 9; ExitCode(e) >= ExitCode(c) for every cause  *)
(* c of every error e.                                                     *)
(***************************************************************************)
C9_MaxAcrossCausesAlways ==
    \A e \in Errors :
        /\ (/\ HasOwnCode(e)
            /\ ErrorExitCode(errs[e]) = 5
            /\ \E c \in CauseSet(e) : ExitCode(c) = 9) => ExitCode(e) = 9
        /\ \A c \in CauseSet(e) : ExitCode(e) >= ExitCode(c)

(***************************************************************************)
(* C9, amended: an error with the explicit exit code 5 and a cause with    *)
(* exit code 9 has ExitCode 5; ExitCode(e) >= ExitCode(c) for every cause  *)
(* c holds of the errors e that have no positive exit code of their own.   *)
(***************************************************************************)
C9_ExplicitCodeWins ==
    /\ ret = NoCall => \A e \in Errors :
          /\ (/\ HasOwnCode(e)
              /\ ErrorExitCode(errs[e]) = 5
              /\ \E c \in CauseSet(e) : ExitCode(c) = 9) => ExitCode(e) = 5
          /\ ~HasOwnCode(e) => \A c \in CauseSet(e) : ExitCode(e) >= ExitCode(c)
    /\ (/\ ret.fn = "ExitCode"
        /\ HasOwnCode(ret.arg)
        /\ ErrorExitCode(errs[ret.arg]) = 5) => ret.val = 5

\* ExitCode was called on an error with code 5 whose cause declares code 9:
\* it returned 5
C9_Witness ==
    /\ ret.fn = "ExitCode"
    /\ HasOwnCode(ret.arg)
    /\ ErrorExitCode(errs[ret.arg]) = 5
    /\ \E c \in CauseSet(ret.arg) :
          HasOwnCode(c) /\ ErrorExitCode(errs[c]) = 9
    /\ ret.val = 5

FieldsOf(err) ==
    [view |-> ProbeView(err), recoverable |-> ErrorIsRecoverable(errs[err]),
     stacks |-> Stacks(err)]

\* what the accessors of a *Ae return now: the orders ErrorTags can come in
\* and the contents of the other containers
AccessorView(e) ==
    LET a == errs[e].ae
        at == Ae_ErrorAttributes(a, heap)
        ca == Ae_ErrorCauses(a, heap)
        re == Ae_ErrorRelated(a, heap)
        un == Ae_Unwrap(a, heap)
    IN [tags |-> Ae_ErrorTags(a, heap),
        attributes |-> at.h.attrmaps[at.m],
        causes |-> SliceElems(ca.s, ca.h),
        related |-> SliceElems(re.s, re.h),
        unwrap |-> SliceElems(un.s, un.h),
        stacks |-> Ae_ErrorStacks(a)]

C12_RoundTrip ==
    [][/\ (ret' # ret /\ ret'.fn = "ReFreeze") =>
             FieldsOf(ret.val)' = FieldsOf(ret.arg)'
       /\ FieldsOf(BuiltRef)' = FieldsOf(BuiltRef)]_vars

\* the built error was frozen again, and a builder taken from it (it has
\* its message) now holds other attributes than the built error
C12_Witness ==
    /\ ret.fn = "ReFreeze"
    /\ ret.arg = BuiltRef
    /\ FieldsOf(ret.val) = FieldsOf(BuiltRef)
    /\ Tags(ret.val) = {"", "a"}
    /\ \E b \in builders :
          /\ b.msg = "m"
          /\ heap.attrmaps[b.attributes] # Attributes(BuiltRef)

(***************************************************************************)
(* C13: From(x) does not fail for any error x, and for a plain error x,    *)
(* one with a text and none of the capabilities, the builder From(x)       *)
(* returns has x's text, x.Error(), as its message.                        *)
(***************************************************************************)
IsPlain(err) ==
    err # Nil /\ errs[err].type = "Foreign" /\ errs[err].caps = {}

C13_FromKeepsText ==
    (ret.fn = "From" /\ IsPlain(ret.arg[1])) =>
        \A b \in builders : b.msg = Error(ret.arg[1], errs, heap)

(***************************************************************************)
(* C14: AddRelated(err, related...) is nil for a nil err; otherwise it     *)
(* returns a new error for which every probe (Message, UserMessage, Hint,  *)
(* Code, ExitCode, IsRecoverable, Tags, Attributes, Causes, Stacks)        *)
(* reports what it reports for err, also when err shows its causes only    *)
(* through Unwrap, and whose related list is that of err followed by the   *)
(* non-nil arguments.                                                      *)
(***************************************************************************)
EnrichView(err) ==
    [message |-> Message(err), userMessage |-> UserMessage(err),
     hint |-> Hint(err), code |-> Code(err), exitCode |-> ExitCode(err),
     recoverable |-> IsRecoverable(err), tags |-> Tags(err),
     attributes |-> Attributes(err), causes |-> Causes(err),
     stacks |-> Stacks(err)]

C14_AddRelatedPreserves ==
    ret.fn = "AddRelated" =>
        IF ret.arg[1] = Nil THEN ret.val = Nil
        ELSE /\ ret.val \notin {Nil, ret.arg[1]}
             /\ EnrichView(ret.val) = EnrichView(ret.arg[1])
             /\ Related(ret.val)
                    = Related(ret.arg[1]) \o NonNil(Tail(ret.arg))

(***************************************************************************)
(* C15: Wrap, Wrapf, WrapC, WrapCf and WrapMany return nil exactly when    *)
(* no non-nil error is passed; otherwise the error returned has the given  *)
(* message and exactly the non-nil errors passed, in order, as its causes. *)
(***************************************************************************)
WrapFamily == {"Wrap", "Wrapf", "WrapC", "WrapCf", "WrapMany"}

C15_WrapFamily ==
    ret.fn \in WrapFamily =>
        IF NonNil(ret.arg) = <<>> THEN ret.val = Nil
        ELSE /\ ret.val # Nil
             /\ Message(ret.val) = "m"
             /\ Causes(ret.val) = NonNil(ret.arg)

(***************************************************************************)
(* C16: errors.Join never panics; it returns nil when no argument is       *)
(* non-nil, the one non-nil argument itself when there is exactly one, and *)
(* otherwise an error whose causes are the non-nil arguments in order and  *)
(* whose message is their texts joined with "; " in square brackets.       *)
(***************************************************************************)
C16_Join ==
    ret.fn = "Join" =>
        /\ ret.val # Panic
        /\ LET nn == NonNil(ret.arg)
           IN IF Len(nn) = 0 THEN ret.val = Nil
              ELSE IF Len(nn) = 1 THEN ret.val = nn[1]
              ELSE /\ ret.val = Len(errs)
                   /\ Causes(ret.val) = nn
                   /\ Message(ret.val) = "[" \o JoinTexts(nn, errs, heap) \o "]"

(***************************************************************************)
(* C17: no error value with an empty message is ever produced: the         *)
(* message of every frozen error value is non-empty, Msg("") aborts        *)
(* instead of returning an error value.                                    *)
(***************************************************************************)
C17_NoEmptyMessage ==
    \A e \in 1..Len(errs) : errs[e].type = "Ae" => errs[e].ae.msg # ""

(***************************************************************************)
(* C18: the setters ignore invalid input: ExitCode(n) with n <= 0, Tag("") *)
(* and Tags with "", Attr("", v) and Attrs with an empty key leave the     *)
(* builder as it was, so no builder ever holds a negative exit code, an    *)
(* empty tag or an empty attribute key.                                    *)
(***************************************************************************)
C18_InvalidInputIgnored ==
    \A b \in builders :
        /\ b.exitCode >= 0
        /\ "" \notin heap.tagmaps[b.tags]
        /\ "" \notin DOMAIN heap.attrmaps[b.attributes]

(***************************************************************************)
(* C19: with max depth d >= 0 the text and the JSON back end render        *)
(* exactly the cause nodes at depth 1..d below the root, nothing stands in *)
(* for the nodes beyond, and with a negative max depth every node of the   *)
(* tree of causes is rendered.                                             *)
(***************************************************************************)
\* the places of the tree of causes down to depth d, all for a negative d,
\* parents before children and siblings in order
RECURSIVE CausePaths(_, _, _, _)
CausePaths(causes, i, path, d) ==
    IF d = 0 \/ i > Len(causes) THEN <<>>
    ELSE <<Append(path, i)>>
         \o CausePaths(Causes(causes[i]), 1, Append(path, i), d - 1)
         \o CausePaths(causes, i + 1, path, d)

NodesWithin(err, d) == CausePaths(Causes(err), 1, <<>>, d)

C19_DepthBound ==
    ret.fn = "Prints" =>
        ret.val.nodes = NodesWithin(ret.arg.err, ret.arg.maxDepth)

\* a chain three causes deep was printed as text with max depth 1: only the
\* first-level cause has a node
C19_Witness ==
    /\ ret.fn = "Prints"
    /\ ~ret.arg.json
    /\ ret.arg.maxDepth = 1
    /\ Len(NodesWithin(ret.arg.err, -1)) >= 3
    /\ ret.val.nodes = <<<<1>>>>

(***************************************************************************)
(* C20: printing the same error value twice with the same configuration,   *)
(* colors disabled, gives the same output byte for byte, as text and as    *)
(* JSON, also for an error with two or more tags and attributes.           *)
(***************************************************************************)
C20_Deterministic ==
    [][(/\ ret.fn = "Prints"
        /\ ret'.fn = "Prints"
        /\ ret'.arg = ret.arg
        /\ errs' = errs)
          => ret'.val.text = ret.val.text]_vars

(***************************************************************************)
(* C21: for the error "db failed" with tag "database" and one cause        *)
(* "timeout" with exit code 7, the text output is the root line            *)
(* "db failed [database]", without an exit-code annotation, and a causes   *)
(* subtree whose "timeout" node carries exit code 7; the JSON output is a  *)
(* root object with exactly message, tags and causes, the cause object     *)
(* with message "timeout" and exit_code 7.                                 *)
(***************************************************************************)
ScenarioJson ==
    LET none == [message |-> "", userMessage |-> "", hint |-> "", code |-> "",
                 exitCode |-> 0, traceId |-> "", spanId |-> "", tags |-> <<>>,
                 attrs |-> [k \in {} |-> 0], causes |-> <<>>, related |-> <<>>]
    IN [none EXCEPT !.message = "db failed", !.tags = <<"database">>,
                    !.causes = <<[none EXCEPT !.message = "timeout",
                                              !.exitCode = 7]>>]

\* the scenario error was printed with a depth that lets the cause through
ScenarioPrinted ==
    /\ ret.fn = "Prints"
    /\ ret.arg.err = 2
    /\ Len(errs) = 2
    /\ ret.arg.maxDepth # 0

C21_Scenario ==
    ScenarioPrinted =>
        IF ret.arg.json
        THEN ret.val.text = marshal(ScenarioJson, "", Spaces(2))
        ELSE ret.val.text = "db failed [database]" \o "\nCauses:\n"
                            \o "+- " \o "/7timeout" \o "\n"

C28_NoNilCause ==
    ret.fn = "Causes" => \A i \in 1..Len(ret.val) : ret.val[i] # Nil

\* text has sub in it
Contains(text, sub) ==
    \E i \in 1..(Len(text) - Len(sub) + 1) :
        SubSeq(text, i, i + Len(sub) - 1) = sub

\* the printed text shows the field of the error of FullErrors
Shows(field, out) ==
    CASE field = "userMsg" -> Contains(out, "sorry")
      [] field = "hint" -> Contains(out, "retry")
      [] field = "code" -> Contains(out, "E42")
      [] field = "exitCode" ->
            Contains(out, "/7") \/ Contains(out, "\"exit_code\"")
      [] field = "traceId" -> Contains(out, "trace-1")
      [] field = "spanId" -> Contains(out, "span-1")
      [] field = "tags" -> Contains(out, "net")
      [] field = "attributes" -> Contains(out, "host")
      [] field = "causes" -> Contains(out, "timeout")
      [] field = "related" -> Contains(out, "other")

Toggles ==
    {"userMsg", "hint", "code", "exitCode", "traceId", "spanId", "tags",
     "attributes", "causes", "related"}

FullPrinted == ret.fn = "Prints" /\ Len(errs) = 3 /\ ret.arg.err = 3

(***************************************************************************)
(* C23: a field whose toggle is disabled appears neither in the text       *)
(* output nor in the JSON output, whatever the other toggles are.          *)
(***************************************************************************)
C23_TogglesHonoured ==
    FullPrinted =>
        \A f \in Toggles : ~ret.arg.p[f] => ~Shows(f, ret.val.text)

\* the field of the printer an option sets, and the value it sets it to
Setting(o) ==
    CASE o.name = "WithoutUserMessage" -> <<"userMsg", FALSE>>
      [] o.name = "WithoutHint" -> <<"hint", FALSE>>
      [] o.name = "WithoutCode" -> <<"code", FALSE>>
      [] o.name = "WithoutExitCode" -> <<"exitCode", FALSE>>
      [] o.name = "WithoutTraceId" -> <<"traceId", FALSE>>
      [] o.name = "WithoutSpanId" -> <<"spanId", FALSE>>
      [] o.name = "WithoutTags" -> <<"tags", FALSE>>
      [] o.name = "WithoutAttributes" -> <<"attributes", FALSE>>
      [] o.name = "WithoutCauses" -> <<"causes", FALSE>>
      [] o.name = "WithCauses" -> <<"causes", TRUE>>
      [] o.name = "WithoutRelated" -> <<"related", FALSE>>
      [] o.name = "WithoutStacks" -> <<"stacks", FALSE>>
      [] o.name = "WithoutColors" -> <<"colors", FALSE>>
      [] o.name = "WithJSON" -> <<"json", TRUE>>
      [] o.name = "WithInfiniteDepth" -> <<"maxDepth", -1>>

(***************************************************************************)
(* C24: the printer NewPrinter returns has, for every setting the caller   *)
(* passed an option for, the value of the last such option; after          *)
(* NewPrinter(WithoutCauses()) causes are disabled and none is rendered.   *)
(***************************************************************************)
C24_LastOptionWins ==
    FullPrinted =>
        LET opts == ret.arg.opts
        IN /\ \A i \in 1..Len(opts) :
                 (\A j \in (i + 1)..Len(opts) :
                     Setting(opts[j])[1] # Setting(opts[i])[1])
                 => ret.arg.p[Setting(opts[i])[1]] = Setting(opts[i])[2]
           /\ opts = <<Option("WithoutCauses", 0)>> =>
                 /\ ~ret.arg.p.causes
                 /\ ret.val.nodes = <<>>

(***************************************************************************)
(* C25: the printer of NewPrinter() without options has maxDepth -1 and    *)
(* causes enabled, and prints every cause of the error.                    *)
(***************************************************************************)
C25_DefaultInfiniteDepth ==
    (FullPrinted /\ ret.arg.opts = <<>>) =>
        /\ ret.arg.p.maxDepth = -1
        /\ ret.arg.p.causes
        /\ Shows("causes", ret.val.text)

(***************************************************************************)
(* C29: with every toggle enabled the text output shows a field (user      *)
(* message, related errors and the others) exactly if the JSON output of   *)
(* the same printer shows it.                                              *)
(***************************************************************************)
C29_TextJsonEquivalent ==
    (FullPrinted /\ ~ret.arg.json /\ \A f \in Toggles : ret.arg.p[f]) =>
        \A f \in Toggles :
            Shows(f, ret.val.text)
            <=> \E o \in Prints([ret.arg.p EXCEPT !.json = TRUE], ret.arg.err) :
                   Shows(f, o.text)

\* the non-nil arguments of the calls of the given names, in call and
\* argument order
RECURSIVE Passed(_, _)
Passed(calls, fns) ==
    IF calls = <<>> THEN <<>>
    ELSE (IF Head(calls).fn \in fns
          THEN SelectSeq(Head(calls).args, LAMBDA e : e # Nil)
          ELSE <<>>)
         \o Passed(Tail(calls), fns)

(***************************************************************************)
(* C26: after a chain of Cause, Causes and Related calls from New() the    *)
(* causes of the builder are the non-nil arguments of the Cause and Causes *)
(* calls in call and argument order, and its related errors those of the   *)
(* Related calls.                                                          *)
(***************************************************************************)
C26_ListsAreConcatenation ==
    ret.fn = "chain" =>
        /\ SliceElems(ret.val.causes, heap) = Passed(ret.arg, {"Cause", "Causes"})
        /\ SliceElems(ret.val.related, heap) = Passed(ret.arg, {"Related"})

\* a chain of cause and related calls that passed a nil and the same error
\* twice
C26_Witness ==
    /\ ret.fn = "chain"
    /\ Len(ret.arg) = 3
    /\ ret.arg[1] = [fn |-> "Cause", args |-> <<1, Nil, 2>>]
    /\ ret.arg[2].fn = "Related"
    /\ ret.arg[3] = [fn |-> "Causes", args |-> <<2, 1>>]
    /\ SliceElems(ret.val.causes, heap) = <<1, 2, 2, 1>>
    /\ Len(SliceElems(ret.val.related, heap)) > 0

\* what an argument of CauseUnwrap or RelatedUnwrap stands for: its non-nil
\* children if it has Unwrap() []error, else itself
Flat(e) ==
    IF e = Nil THEN <<>>
    ELSE IF errs[e].type = "Ae"
    THEN SelectSeq(SliceElems(errs[e].ae.causes, heap), LAMBDA c : c # Nil)
    ELSE IF "UnwrapMany" \in errs[e].caps
    THEN SelectSeq(errs[e].unwrapMany, LAMBDA c : c # Nil)
    ELSE <<e>>

RECURSIVE FlatAll(_)
FlatAll(list) ==
    IF list = <<>> THEN <<>> ELSE Flat(Head(list)) \o FlatAll(Tail(list))

RECURSIVE PassedFlat(_, _)
PassedFlat(calls, fns) ==
    IF calls = <<>> THEN <<>>
    ELSE (IF Head(calls).fn \in fns THEN FlatAll(Head(calls).args) ELSE <<>>)
         \o PassedFlat(Tail(calls), fns)

C27_Flattened ==
    ret.fn = "chain" =>
        /\ SliceElems(ret.val.causes, heap) = PassedFlat(ret.arg, {"CauseUnwrap"})
        /\ SliceElems(ret.val.related, heap)
              = PassedFlat(ret.arg, {"RelatedUnwrap"})

(***************************************************************************)
(* C27: CauseUnwrap and RelatedUnwrap append, for every non-nil argument   *)
(* in order, the argument or, if it has Unwrap() []error, its non-nil      *)
(* children, one level deep; every non-nil argument adds at least one      *)
(* entry.                                                                  *)
(***************************************************************************)
C27_UnwrapOneLevel ==
    /\ C27_Flattened
    /\ ret.fn = "chain" =>
          \A i \in 1..Len(ret.arg) : \A j \in 1..Len(ret.arg[i].args) :
              ret.arg[i].args[j] # Nil => Flat(ret.arg[i].args[j]) # <<>>

\* the call that made the last context of ret.val staged attributes
AttributesStaged ==
    /\ ret.fn = "ctx"
    /\ ret.arg.fn \in {"WithAttributes", "WithAttributesValue"}

(***************************************************************************)
(* C30: AttributesFromContext of the context WithAttributes or             *)
(* WithAttributesValue(ctx, A) returned is what it was for ctx with the    *)
(* entries of A on top, and AttributesFromContext and TagsFromContext of   *)
(* ctx are what they were before the call.                                 *)
(***************************************************************************)
C30_StagedAttributes ==
    AttributesStaged =>
        LET parent == ret.val[ret.arg.parent]
            child == ret.val[Len(ret.val)]
            before == ret.arg.attrsBefore
            A == ret.arg.input
        IN /\ AttributesFromContext(child, heap)
                 = [k \in DOMAIN before \cup DOMAIN A |->
                       IF k \in DOMAIN A THEN A[k] ELSE before[k]]
           /\ AttributesFromContext(parent, heap) = before
           /\ TagsFromContext(parent) = ret.arg.tagsBefore

====
